---------------------------- MODULE Spec2Model ----------------------------
(***************************************************************************)
(* PacketThermostat (w5xd/PacketThermostat): the Arduino sketch that sits  *)
(* between a wall thermostat and a furnace.  The model follows the sketch  *)
(* (PacketThermostat.ino, carried in ThermostatCommon.h from line 76 on)   *)
(* and the mode engine (HVAC.cpp, carried as unnamed/part_002).            *)
(*                                                                         *)
(* A uint8_t signal mask is an integer 0..255 and the C bit operators are  *)
(* computed bit by bit.  Time is the value of millis() in milliseconds; it *)
(* advances in steps of TickMsec.  One pass of loop() is a sequence of     *)
(* steps, one per block of loop(), ordered by pc.  A command is the text   *)
(* after it has been split at its separators: the keyword that selects the *)
(* handler and the numeric fields as digit strings, which the handlers     *)
(* convert with aDecimalToInt / aHexToInt.                                 *)
(***************************************************************************)
EXTENDS Integers, Sequences, FiniteSets, TLC

\* ---------------------------------------------------------------- bounds
TickMsec == 30000
MaxTicks == 3

\* ------------------------------------------------- signals and registers
BN_W_FAILSAFE == 0
BN_R == 0
BN_Z2 == 1
BN_Z1 == 2
BN_W == 3
BN_ZX == 4
BN_X2 == 5
BN_X1 == 6
BN_X3 == 7
BN_FIRST_SIGNAL == BN_Z2
NUMBER_OF_SIGNALS == 8
NUM_HVAC_INPUT_SIGNALS == 6

RECURSIVE Pow2(_)
Pow2(n) == IF n = 0 THEN 1 ELSE 2 * Pow2(n - 1)

Bit(n) == Pow2(n)

RECURSIVE BitAndN(_, _, _)
BitAndN(a, b, n) ==
    IF n = 0 THEN 0
    ELSE (a % 2) * (b % 2) + 2 * BitAndN(a \div 2, b \div 2, n - 1)

\* a & b, a | b, a ^ b, ~a on uint8_t
And8(a, b) == BitAndN(a, b, 8)
Or8(a, b) == a + b - And8(a, b)
Xor8(a, b) == a + b - 2 * And8(a, b)
Not8(a) == 255 - a
U8(n) == n % 256
U16(n) == n % 65536
\* static_cast<int16_t> of a 16 bit pattern
ToInt16(n) == IF U16(n) >= 32768 THEN U16(n) - 65536 ELSE U16(n)
\* Difference of two unsigned long time stamps.  The model checker's numbers
\* end at 2^31 - 1: a difference that wrapped below zero, 2^32 - (b - a) in the
\* code, is given as 2^31 - (b - a), which is on the same side of every
\* threshold the code compares it with (all are below 2^27).
Sub32(a, b) == IF a >= b THEN a - b ELSE 2147483647 - (b - a) + 1
\* the same difference stored in a signed 32 bit variable
SSub32(a, b) == a - b

INPUT_SIGNAL_MASK ==
    Bit(BN_R) + Bit(BN_Z2) + Bit(BN_Z1) + Bit(BN_W) + Bit(BN_ZX) + Bit(BN_X2) + Bit(BN_X1)
OUTPUT_SIGNAL_MASK ==
    Bit(BN_Z2) + Bit(BN_Z1) + Bit(BN_W) + Bit(BN_ZX) + Bit(BN_X2) + Bit(BN_X1) + Bit(BN_X3)

MINIMUM_ON_MSEC == 60000
INPUT_AC_ACTIVE_MIN_MSEC == 100
CMD_BUFLEN == 80
NUM_HEAT_SAFETY_ENTRIES == 3
NUM_SCHEDULE_TEMPERATURE_ENTRIES == 16

\* ------------------------------------------------------ number parsing
\* A numeric field of a command is the string of its digits, each digit
\* given by its value.  aDecimalToInt accumulates in a uint16_t, aHexToInt
\* in a uint32_t.
RECURSIVE DecimalAcc(_, _)
DecimalAcc(ret, tok) ==
    IF tok = <<>> THEN ret
    ELSE DecimalAcc(U16(ret * 10 + Head(tok)), Tail(tok))

aDecimalToInt(tok) == DecimalAcc(0, tok)

\* aHexToInt accumulates in a uint32_t, kept here as its two 16 bit halves
RECURSIVE HexAcc(_, _)
HexAcc(ret, tok) ==
    IF tok = <<>> THEN ret
    ELSE HexAcc([ lo |-> (ret.lo * 16 + Head(tok)) % 65536,
                  hi |-> (ret.hi * 16 + ((ret.lo * 16 + Head(tok)) \div 65536)) % 65536 ],
                Tail(tok))

aHexToInt(tok) == HexAcc([lo |-> 0, hi |-> 0], tok)

\* static_cast<uint8_t> of a uint32_t
Low8(v) == v.lo % 256

\* ------------------------------------------------------------ program state
VARIABLES
    millis,                   \* the value millis() returns
    pc,                       \* the block of loop() that runs next
    now,                      \* loop(): const auto now = millis()
    previousInputRegister,    \* loop(): InputRegister at the top of the pass
    cmdbuf,                   \* the command line completed on Serial, or None
    reportbuf,                \* the radio packet received, or None
    OutputRegister, InputRegister, InputsToHvacFlag,
    LastOutputWrite,
    CompressorOffStartTime, CompressorOffTimeActive,
    HeatSafetyOffStartTime, HeatSafetyShutoffMask, HeatSafetyOffTimeActive,
    relayIsOn, onAtTime,
    TinletTemperatureCx10,
    EEPROM,
    MyTypeNumber, MyModeNumber,
    ModeName, inputToOutput, sensorSettings, coolSettings, autoSettings,
    lastHeardFromSensor, lastHeardSensorId, timeEnteredStage1,
    fancoilState, fanIsOn, previousActual,
    coolDehumidifyState, autoDehumidifyState, heatState, autoTarget,
    lastScheduleUpdate,       \* loop(): static, the time of the last schedule check
    rtc,                      \* the clock as rtc.updateTime() last read it
    LastSeenActive,           \* loop(): static, per signal the last poll that saw it active
    LastChecked,              \* loop(): static, the time of the last poll of the inputs
    RestartedChecking,        \* loop(): static, the last poll made 25 ms or more after another
    charsInBuf,               \* the number of characters held in the command buffer
    serialLog,                \* what the last step did on the serial port, in order
    spi,                      \* the output updates made by the last step, in order
    relayPulledInAt,          \* history: time of the last update that pulled the failsafe relay in
    wDifferedAt,              \* history: time of the last update at which W out and W in differed
    committed,                \* history: per instance, the working settings at its last HVAC COMMIT
    steps                     \* history: steps taken by the unit seen command by command

ramvars == <<OutputRegister, InputRegister, InputsToHvacFlag, LastOutputWrite,
             CompressorOffStartTime, CompressorOffTimeActive,
             HeatSafetyOffStartTime, HeatSafetyShutoffMask, HeatSafetyOffTimeActive,
             relayIsOn, onAtTime, TinletTemperatureCx10,
             MyTypeNumber, MyModeNumber,
             ModeName, inputToOutput, sensorSettings, coolSettings, autoSettings,
             lastHeardFromSensor, lastHeardSensorId, timeEnteredStage1,
             fancoilState, fanIsOn, previousActual,
             coolDehumidifyState, autoDehumidifyState, heatState, autoTarget,
             lastScheduleUpdate, rtc,
             LastSeenActive, LastChecked, RestartedChecking, charsInBuf, serialLog>>

histvars == <<spi, relayPulledInAt, wDifferedAt, committed>>

vars == <<millis, pc, now, previousInputRegister, cmdbuf, reportbuf, ramvars, EEPROM, histvars,
          steps>>

\* a field that a command does not carry
None == <<-1>>

\* the element of a set of one: { e : x \in {v} } is e with x standing for v
The(S) == CHOOSE x \in S : TRUE

\* The memory the handlers work on, as one record: the handlers below are
\* functions from this record to this record.
Mem ==
    [ millis |-> millis,
      OutputRegister |-> OutputRegister, InputRegister |-> InputRegister,
      InputsToHvacFlag |-> InputsToHvacFlag, LastOutputWrite |-> LastOutputWrite,
      CompressorOffStartTime |-> CompressorOffStartTime,
      CompressorOffTimeActive |-> CompressorOffTimeActive,
      HeatSafetyOffStartTime |-> HeatSafetyOffStartTime,
      HeatSafetyShutoffMask |-> HeatSafetyShutoffMask,
      HeatSafetyOffTimeActive |-> HeatSafetyOffTimeActive,
      relayIsOn |-> relayIsOn, onAtTime |-> onAtTime,
      TinletTemperatureCx10 |-> TinletTemperatureCx10,
      EEPROM |-> EEPROM,
      MyTypeNumber |-> MyTypeNumber, MyModeNumber |-> MyModeNumber,
      ModeName |-> ModeName, inputToOutput |-> inputToOutput,
      sensorSettings |-> sensorSettings, coolSettings |-> coolSettings,
      autoSettings |-> autoSettings,
      lastHeardFromSensor |-> lastHeardFromSensor,
      lastHeardSensorId |-> lastHeardSensorId,
      timeEnteredStage1 |-> timeEnteredStage1,
      fancoilState |-> fancoilState, fanIsOn |-> fanIsOn,
      previousActual |-> previousActual,
      coolDehumidifyState |-> coolDehumidifyState,
      autoDehumidifyState |-> autoDehumidifyState,
      heatState |-> heatState, autoTarget |-> autoTarget,
      lastScheduleUpdate |-> lastScheduleUpdate, rtc |-> rtc,
      LastSeenActive |-> LastSeenActive, LastChecked |-> LastChecked,
      RestartedChecking |-> RestartedChecking,
      charsInBuf |-> charsInBuf, serialLog |-> <<>>,
      spi |-> <<>>,
      relayPulledInAt |-> relayPulledInAt,
      wDifferedAt |-> wDifferedAt,
      committed |-> committed ]

Store(s) ==
    /\ OutputRegister' = s.OutputRegister
    /\ InputRegister' = s.InputRegister
    /\ InputsToHvacFlag' = s.InputsToHvacFlag
    /\ LastOutputWrite' = s.LastOutputWrite
    /\ CompressorOffStartTime' = s.CompressorOffStartTime
    /\ CompressorOffTimeActive' = s.CompressorOffTimeActive
    /\ HeatSafetyOffStartTime' = s.HeatSafetyOffStartTime
    /\ HeatSafetyShutoffMask' = s.HeatSafetyShutoffMask
    /\ HeatSafetyOffTimeActive' = s.HeatSafetyOffTimeActive
    /\ relayIsOn' = s.relayIsOn
    /\ onAtTime' = s.onAtTime
    /\ TinletTemperatureCx10' = s.TinletTemperatureCx10
    /\ EEPROM' = s.EEPROM
    /\ MyTypeNumber' = s.MyTypeNumber
    /\ MyModeNumber' = s.MyModeNumber
    /\ ModeName' = s.ModeName
    /\ inputToOutput' = s.inputToOutput
    /\ sensorSettings' = s.sensorSettings
    /\ coolSettings' = s.coolSettings
    /\ autoSettings' = s.autoSettings
    /\ lastHeardFromSensor' = s.lastHeardFromSensor
    /\ lastHeardSensorId' = s.lastHeardSensorId
    /\ timeEnteredStage1' = s.timeEnteredStage1
    /\ fancoilState' = s.fancoilState
    /\ fanIsOn' = s.fanIsOn
    /\ previousActual' = s.previousActual
    /\ coolDehumidifyState' = s.coolDehumidifyState
    /\ autoDehumidifyState' = s.autoDehumidifyState
    /\ heatState' = s.heatState
    /\ autoTarget' = s.autoTarget
    /\ lastScheduleUpdate' = s.lastScheduleUpdate
    /\ rtc' = s.rtc
    /\ LastSeenActive' = s.LastSeenActive
    /\ LastChecked' = s.LastChecked
    /\ RestartedChecking' = s.RestartedChecking
    /\ charsInBuf' = s.charsInBuf
    /\ serialLog' = s.serialLog
    /\ spi' = s.spi
    /\ relayPulledInAt' = s.relayPulledInAt
    /\ wDifferedAt' = s.wDifferedAt
    /\ committed' = s.committed

\* ------------------------------------------------------- EEPROM settings
getCompressorMask(ee) ==
    IF ee.COMPRESSOR_MASK = 255 THEN 0 ELSE ee.COMPRESSOR_MASK

getCompressorHoldSeconds(ee) == ee.COMPRESSOR_HOLD_SECONDS

getHeatSafetyHoldSeconds(ee) == ee.HEATSAFETY_HOLD_SECONDS

getHeatSafetyTemperatureCx10(ee) == ToInt16(ee.HEATSAFETY_TRIGGER_TEMPERATURECx10)

getHeatSafetyMask(ee, which) == ee.HEATSAFETY_MAP[which + 1]

\* ------------------------------------------------------ namespace Furnace
WBit(mask) == And8(mask, Bit(BN_W))

\* a relay without the minimum on time
RelayNotHeld(s, t) == FALSE

\* a relay bit that follows the minimum on time only
FailsafeOnlyHeld(held, differ) == held

\* UpdateOutputs, the failsafe relay: the relay was pulled in less than
\* MINIMUM_ON_MSEC ago ...
RelayHeld(s, t) == s.relayIsOn /\ Sub32(t, s.onAtTime) < MINIMUM_ON_MSEC

\* ... and whether the relay bit is set, "differ" being W out # W in
FailsafeOn(held, differ) == held \/ differ

\* UpdateOutputs, from the failsafe relay to the write
WriteOutputs(s, requested, starts, m2) ==
    LET t == s.millis
        differ == WBit(m2) # WBit(s.InputRegister)
        pulls == ~RelayHeld(s, t) /\ differ
        m3 == IF FailsafeOn(RelayHeld(s, t), differ) THEN Or8(m2, Bit(BN_W_FAILSAFE)) ELSE m2
    IN  [s EXCEPT
            !.LastOutputWrite = requested,
            !.CompressorOffTimeActive = @ \/ starts,
            !.CompressorOffStartTime = IF starts THEN t ELSE @,
            !.relayIsOn = IF pulls THEN TRUE ELSE @,
            !.onAtTime = IF pulls THEN t ELSE @,
            !.OutputRegister = m3,
            !.spi = Append(@, [ before |-> s.OutputRegister,
                                requested |-> requested,
                                out |-> m3,
                                at |-> t,
                                inputs |-> s.InputRegister,
                                compressorMask |-> getCompressorMask(s.EEPROM),
                                lockout |-> s.CompressorOffTimeActive \/ starts,
                                lockoutStart |-> IF starts THEN t ELSE s.CompressorOffStartTime,
                                heatSafety |-> s.HeatSafetyOffTimeActive,
                                pulledInAt |-> IF pulls THEN t ELSE s.relayPulledInAt,
                                differedAt |-> IF differ THEN t ELSE s.wDifferedAt ]),
            !.relayPulledInAt = IF pulls THEN t ELSE @,
            !.wDifferedAt = IF differ THEN t ELSE @ ]

\* UpdateOutputs, the compressor short cycle timer: whether this write starts
\* it ...
CompressorStarts(s, m1) ==
    /\ ~s.CompressorOffTimeActive
    /\ getCompressorMask(s.EEPROM) # 255
    /\ And8(s.OutputRegister, getCompressorMask(s.EEPROM)) # 0
    /\ And8(m1, getCompressorMask(s.EEPROM)) = 0

\* a lockout that does not touch the mask
CompressorNotHeld(s, m1, starts) == m1

\* ... and the mask with the compressor bits held off while it runs
CompressorHeld(s, m1, starts) ==
    IF s.CompressorOffTimeActive \/ starts
    THEN And8(m1, Not8(getCompressorMask(s.EEPROM))) ELSE m1

UpdateOutputsAfterCompressor(s, requested, m1, starts) ==
    WriteOutputs(s, requested, starts, CompressorHeld(s, m1, starts))

\* a shutdown that does not touch the mask
HeatSafetyNoShutoff(s, requested) == requested

\* UpdateOutputs, the heat safety shut off
HeatSafetyShutoff(s, requested) ==
    IF s.HeatSafetyOffTimeActive THEN And8(requested, s.HeatSafetyShutoffMask) ELSE requested

UpdateOutputsAfterHeatSafety(s, requested, m1) ==
    UpdateOutputsAfterCompressor(s, requested, m1, CompressorStarts(s, m1))

UpdateOutputsFrom(s, requested) ==
    UpdateOutputsAfterHeatSafety(s, requested, HeatSafetyShutoff(s, requested))

\* the mask is taken as requested, output bit or not
UpdateOutputsUnmasked(s, mask0) == UpdateOutputsFrom(s, mask0)

UpdateOutputs(s, mask0) == UpdateOutputsFrom(s, And8(mask0, OUTPUT_SIGNAL_MASK))

SetOutputBits(s, mask) == UpdateOutputs(s, Or8(mask, s.LastOutputWrite))

ClearOutputBits(s, mask) == UpdateOutputs(s, And8(s.LastOutputWrite, Not8(mask)))

\* ---------------------------------------------------- mode engine: EEPROM
HVAC_PASSTHROUGH == 0
HVAC_MAPINPUTTOOUTPUT == 1
HVAC_HEAT == 2
HVAC_COOL == 3
HVAC_AUTO == 4
NUMBER_OF_HVAC_TYPES == 5
NUM_INPUT_SIGNAL_COMBINATIONS == Pow2(NUM_HVAC_INPUT_SIGNALS)
NAME_LENGTH == 5

\* sizeof of the Settings structs (AVR: no padding)
SizeofHvacCommandsSettings == NAME_LENGTH + 1
SizeofMapSettings == NUM_INPUT_SIGNAL_COMBINATIONS
SizeofSensorSettings == 17
SizeofCoolSettings == 4
SizeofAutoSettings == 7

\* Bytes of the EEPROM from HVAC_MODES_EEPROM_START_ADDR on that are kept in
\* the state; settings records are addressed by their offset from there.
EepromModesSize == 230

\* uint16_t(-1): AddressOfModeTypeSettings for an instance that does not exist
NoAddress == 65535

NumberOfModesInType(ee, t) ==
    IF t = HVAC_PASSTHROUGH THEN 1
    ELSE IF ee.NUMBER_OF_MODES[t] = 255 THEN 0 ELSE ee.NUMBER_OF_MODES[t]

SetNumberOfModesInType(ee, t, count) ==
    IF t = HVAC_PASSTHROUGH THEN ee
    ELSE [ee EXCEPT !.NUMBER_OF_MODES[t] = U8(count)]

SizeofSettings(t) ==
    SizeofHvacCommandsSettings +
    CASE t = HVAC_MAPINPUTTOOUTPUT -> SizeofMapSettings
      [] t = HVAC_AUTO -> SizeofAutoSettings + SizeofCoolSettings + SizeofSensorSettings
      [] t = HVAC_COOL -> SizeofCoolSettings + SizeofSensorSettings
      [] t = HVAC_HEAT -> SizeofSensorSettings
      [] OTHER -> 0

\* records laid out from the start of each type, the types before ignored
AddressWithinType(ee, t, which) ==
    IF which > NumberOfModesInType(ee, t) THEN NoAddress
    ELSE U16(which * SizeofSettings(t))

RECURSIVE AddressOfModeTypeSettings(_, _, _)
AddressOfModeTypeSettings(ee, t, which) ==
    IF which > NumberOfModesInType(ee, t) THEN NoAddress
    ELSE IF t = HVAC_PASSTHROUGH THEN U16(which * SizeofSettings(t))
    ELSE IF t \in {HVAC_MAPINPUTTOOUTPUT, HVAC_HEAT, HVAC_COOL, HVAC_AUTO}
         THEN U16(AddressOfModeTypeSettings(ee, t - 1, NumberOfModesInType(ee, t - 1))
                  + which * SizeofSettings(t))
    ELSE NoAddress

\* EEPROM.put / EEPROM.get of a run of bytes.  Bytes outside the modelled
\* region are not kept: a write there is dropped and a read gives 0xFF.
EepromPut(ee, addr, bytes) ==
    [ee EXCEPT !.MODES =
        [a \in DOMAIN @ |->
            IF a >= addr /\ a < addr + Len(bytes) THEN bytes[a - addr + 1] ELSE @[a]]]

EepromGet(ee, addr, n) ==
    [i \in 1..n |->
        IF addr + i - 1 \in DOMAIN ee.MODES THEN ee.MODES[addr + i - 1] ELSE 255]

LE16(v) == <<U16(v) % 256, U16(v) \div 256>>
LE32(v) == <<v.lo % 256, v.lo \div 256, v.hi % 256, v.hi \div 256>>
FromLE16(b, i) == b[i] + 256 * b[i + 1]
FromLE32(b, i) == [lo |-> b[i] + 256 * b[i + 1], hi |-> b[i + 2] + 256 * b[i + 3]]

\* memory image of OverrideAndDriveFromSensors::Settings
SensorBytes(ss) ==
    LE16(ss.TemperatureTargetDegreesCx10) \o LE16(ss.TemperatureActivateDegreesCx10)
    \o LE32(ss.SensorMask)
    \o <<ss.MaskFanOnly, ss.AlwaysOnMask, ss.OutputStage1, ss.OutputStage2, ss.OutputStage3>>
    \o LE16(ss.SecondsToSecondStage) \o LE16(ss.SecondsToThirdStage)

SensorFromBytes(b) ==
    [ TemperatureTargetDegreesCx10 |-> ToInt16(FromLE16(b, 1)),
      TemperatureActivateDegreesCx10 |-> ToInt16(FromLE16(b, 3)),
      SensorMask |-> FromLE32(b, 5),
      MaskFanOnly |-> b[9], AlwaysOnMask |-> b[10],
      OutputStage1 |-> b[11], OutputStage2 |-> b[12], OutputStage3 |-> b[13],
      SecondsToSecondStage |-> FromLE16(b, 14),
      SecondsToThirdStage |-> FromLE16(b, 16) ]

\* memory image of HvacCool::Settings
CoolBytes(cs) ==
    <<cs.MaskDehumidifyBitsOn, cs.MaskDehumidifyBitsOff>> \o LE16(cs.HumiditySettingX10)

CoolFromBytes(b) ==
    [ MaskDehumidifyBitsOn |-> b[1], MaskDehumidifyBitsOff |-> b[2],
      HumiditySettingX10 |-> FromLE16(b, 3) ]

\* memory image of HvacAuto::Settings
AutoBytes(as) ==
    LE16(as.TemperatureTargetHeatDegreesCx10) \o LE16(as.TemperatureActivateHeatDegreesCx10)
    \o <<as.HeatMaskStage1, as.HeatMaskStage2, as.HeatMaskStage3>>

AutoFromBytes(b) ==
    [ TemperatureTargetHeatDegreesCx10 |-> ToInt16(FromLE16(b, 1)),
      TemperatureActivateHeatDegreesCx10 |-> ToInt16(FromLE16(b, 3)),
      HeatMaskStage1 |-> b[5], HeatMaskStage2 |-> b[6], HeatMaskStage3 |-> b[7] ]

\* The settings a type keeps behind the name, as the bytes WriteEprom puts
TypeSettingsBytes(s, t) ==
    CASE t = HVAC_MAPINPUTTOOUTPUT -> s.inputToOutput
      [] t = HVAC_HEAT -> SensorBytes(s.sensorSettings)
      [] t = HVAC_COOL -> SensorBytes(s.sensorSettings) \o CoolBytes(s.coolSettings)
      [] t = HVAC_AUTO -> SensorBytes(s.sensorSettings) \o CoolBytes(s.coolSettings)
                          \o AutoBytes(s.autoSettings)
      [] OTHER -> <<>>

\* WriteEprom chain of the active type: the name, then each class's Settings
WriteEprom(s, t, addr) ==
    [s EXCEPT !.EEPROM = EepromPut(@, addr, s.ModeName \o TypeSettingsBytes(s, t))]

\* ReadEprom chain of the active type.  HvacCommands::ReadEprom leaves the
\* name in memory alone when the first byte of the record is 0xFF.
ReadEprom(s, t, addr) ==
    LET nameBytes == EepromGet(s.EEPROM, addr, SizeofHvacCommandsSettings)
        a1 == addr + SizeofHvacCommandsSettings
        a2 == a1 + SizeofSensorSettings
        a3 == a2 + SizeofCoolSettings
        s1 == IF nameBytes[1] # 255 THEN [s EXCEPT !.ModeName = nameBytes] ELSE s
    IN  CASE t = HVAC_MAPINPUTTOOUTPUT ->
                [s1 EXCEPT !.inputToOutput = EepromGet(s.EEPROM, a1, SizeofMapSettings)]
          [] t = HVAC_HEAT ->
                [s1 EXCEPT !.sensorSettings =
                              SensorFromBytes(EepromGet(s.EEPROM, a1, SizeofSensorSettings))]
          [] t = HVAC_COOL ->
                [s1 EXCEPT !.sensorSettings =
                              SensorFromBytes(EepromGet(s.EEPROM, a1, SizeofSensorSettings)),
                           !.coolSettings =
                              CoolFromBytes(EepromGet(s.EEPROM, a2, SizeofCoolSettings))]
          [] t = HVAC_AUTO ->
                [s1 EXCEPT !.sensorSettings =
                              SensorFromBytes(EepromGet(s.EEPROM, a1, SizeofSensorSettings)),
                           !.coolSettings =
                              CoolFromBytes(EepromGet(s.EEPROM, a2, SizeofCoolSettings)),
                           !.autoSettings =
                              AutoFromBytes(EepromGet(s.EEPROM, a3, SizeofAutoSettings))]
          [] OTHER -> s1

\* PassThrough keeps its one record at instance 0 whatever MyModeNumber is
SettingsInstance(s, t) == IF t = HVAC_PASSTHROUGH THEN 0 ELSE s.MyModeNumber

\* the settings the active type works on: the name and the Settings structs
\* of its class chain
WorkingSettings(s, t) ==
    [ name |-> s.ModeName,
      settings |-> CASE t = HVAC_MAPINPUTTOOUTPUT -> <<s.inputToOutput>>
                     [] t = HVAC_HEAT -> <<s.sensorSettings>>
                     [] t = HVAC_COOL -> <<s.sensorSettings, s.coolSettings>>
                     [] t = HVAC_AUTO -> <<s.sensorSettings, s.coolSettings, s.autoSettings>>
                     [] OTHER -> <<>> ]

\* the instances the history of commits is kept for
MaxInstances == 3
NothingCommitted ==
    [i \in (0..(NUMBER_OF_HVAC_TYPES - 1)) \X (0..(MaxInstances - 1)) |-> [valid |-> FALSE]]

\* CommitSettings of the active type; the history notes what was committed
CommitSettings(s) ==
    LET t == s.MyTypeNumber
    IN  [ WriteEprom(s, t, AddressOfModeTypeSettings(s.EEPROM, t, SettingsInstance(s, t)))
          EXCEPT !.committed[<<t, s.MyModeNumber>>] =
                    [valid |-> TRUE, working |-> WorkingSettings(s, t)] ]

ReadSettings(s) ==
    LET t == s.MyTypeNumber
    IN  ReadEprom(s, t, AddressOfModeTypeSettings(s.EEPROM, t, SettingsInstance(s, t)))

IsSensorType(t) == t \in {HVAC_HEAT, HVAC_COOL, HVAC_AUTO}

STATE_OFF == 0
STATE_STAGE1 == 1
STATE_STAGE2 == 2
STATE_STAGE3 == 3
DEHUMDIFY_OFF == 0
DEHUMIDIFY_ACTIVE == 1
HEAT_OFF == 0
HEAT_STAGE1 == 1
HEAT_STAGE2 == 2
HEAT_STAGE3 == 3

InitializeState(s) ==
    LET t == s.MyTypeNumber
        s1 == [s EXCEPT !.timeEnteredStage1 = s.millis,
                        !.lastHeardFromSensor = s.millis,
                        !.lastHeardSensorId = 0,
                        !.fancoilState = STATE_OFF,
                        !.fanIsOn = FALSE,
                        !.previousActual = 0]
    IN  CASE t = HVAC_HEAT -> s1
          [] t = HVAC_COOL -> [s1 EXCEPT !.coolDehumidifyState = DEHUMDIFY_OFF]
          [] t = HVAC_AUTO ->
                [s1 EXCEPT !.autoDehumidifyState = DEHUMDIFY_OFF,
                           !.heatState = HEAT_OFF,
                           !.autoTarget = s.autoSettings.TemperatureTargetHeatDegreesCx10]
          [] OTHER -> s

TurnFurnaceOff(s) ==
    UpdateOutputs(s, IF IsSensorType(s.MyTypeNumber) THEN s.sensorSettings.AlwaysOnMask ELSE 0)

\* GetTargetAndActual: the bool it returns, and the target it reports
TargetIsKnown(s) == IsSensorType(s.MyTypeNumber)

TargetCx10(s) ==
    IF s.MyTypeNumber = HVAC_AUTO THEN s.autoTarget
    ELSE s.sensorSettings.TemperatureTargetDegreesCx10

\* ------------------------------------------------ mode engine: commands
\* A handler that returns bool gives the memory it leaves and the bool.
Ret(s, ok) == [s |-> s, ok |-> ok]

\* the i-th numeric field of a command; the empty string when the text ends
\* before it (the parsers then give 0)
Field(args, i) == IF i <= Len(args) THEN args[i] ELSE <<>>

\* HVAC NAME=: up to NAME_LENGTH characters, then a null; the rest of the
\* array keeps what it held
SetModeName(old, name) ==
    LET n == IF Len(name) < NAME_LENGTH THEN Len(name) ELSE NAME_LENGTH
    IN  [i \in 1..(NAME_LENGTH + 1) |->
            IF i <= n THEN name[i] ELSE IF i = n + 1 THEN 0 ELSE old[i]]

\* the selection is not written to the EEPROM
TypeAndModeNotSaved(s, hvacType) == s

\* EEPROM.write of the type and mode for the next power up
SaveTypeAndMode(s, hvacType) ==
    [s EXCEPT !.EEPROM.TYPE_AND_MODE = <<U8(hvacType), s.MyModeNumber>>]

SelectMode(s, hvacType, mode) ==
    IF s.MyModeNumber # mode \/ s.MyTypeNumber # U8(hvacType)
    THEN TurnFurnaceOff(SaveTypeAndMode(ReadSettings(InitializeState(
             [s EXCEPT !.MyModeNumber = U8(mode), !.MyTypeNumber = U8(hvacType)])), hvacType))
    ELSE s

\* COUNT= has written the EEPROM: a new count moves the records, and the
\* history of commits lapses ("invalidates all previously saved
\* eepromSettings")
CountChanged(s, ee) ==
    [s EXCEPT !.EEPROM = ee,
              !.committed = IF ee.NUMBER_OF_MODES = s.EEPROM.NUMBER_OF_MODES
                            THEN @ ELSE NothingCommitted]

HvacCommandsProcessCommand(s, cmd, toMe) ==
    IF ~toMe \/ cmd.kind # "HVAC" THEN Ret(s, FALSE)
    ELSE LET hvacType == IF cmd.type = None THEN 65535 ELSE aDecimalToInt(cmd.type)
         IN  IF cmd.type # None /\ hvacType >= NUMBER_OF_HVAC_TYPES THEN Ret(s, FALSE)
             ELSE IF cmd.name # None
                  THEN Ret([s EXCEPT !.ModeName = SetModeName(@, cmd.name)], TRUE)
             ELSE IF cmd.commit THEN Ret(CommitSettings(s), TRUE)
             ELSE IF hvacType >= NUMBER_OF_HVAC_TYPES THEN Ret(s, FALSE)
             ELSE IF cmd.mode # None
                  THEN LET mode == aDecimalToInt(cmd.mode)
                       IN  IF mode >= NumberOfModesInType(s.EEPROM, hvacType)
                           THEN Ret(s, FALSE)
                           ELSE Ret(SelectMode(s, hvacType, mode), TRUE)
             ELSE IF cmd.count # None
                  THEN Ret(CountChanged(s, SetNumberOfModesInType(
                                               s.EEPROM, hvacType, aDecimalToInt(cmd.count))),
                           TRUE)
             ELSE Ret(s, FALSE)

\* HVACMAP=0x<addr> <v1> ...: entries are written one by one; the command
\* stops, with the entries already written in place, at the end of the table
\* a command that does not fit the table is rejected before it writes
FillMapIfItFits(s, addr, vals) ==
    IF vals # <<>> /\ addr + Len(vals) > NUM_INPUT_SIGNAL_COMBINATIONS THEN Ret(s, FALSE)
    ELSE Ret([s EXCEPT !.inputToOutput =
                 [i \in 1..NUM_INPUT_SIGNAL_COMBINATIONS |->
                     IF i > addr /\ i - addr <= Len(vals)
                     THEN Low8(aHexToInt(vals[i - addr])) ELSE @[i]]], TRUE)

RECURSIVE FillMap(_, _, _)
FillMap(s, addr, vals) ==
    IF vals = <<>> THEN Ret(s, TRUE)
    ELSE IF addr >= NUM_INPUT_SIGNAL_COMBINATIONS THEN Ret(s, FALSE)
    ELSE FillMap([s EXCEPT !.inputToOutput[addr + 1] = Low8(aHexToInt(Head(vals)))],
                 U8(addr + 1), Tail(vals))

MapProcessCommand(s, cmd, toMe) ==
    The({ IF base.ok THEN base
          ELSE IF ~toMe THEN Ret(s, FALSE)
          ELSE IF cmd.kind = "HVACMAP" THEN FillMap(s, Low8(aHexToInt(cmd.addr)), cmd.vals)
          ELSE Ret(s, FALSE)
        : base \in {HvacCommandsProcessCommand(s, cmd, toMe)} })

\* the activate temperature as it would be if every type put it below
ActivateAlwaysBelowTarget(t, target) == ToInt16(target - 6)

ActivateTemperatureFromTarget(t, target) ==
    IF t = HVAC_HEAT THEN ToInt16(target - 6) ELSE ToInt16(target + 6)

\* HVAC_SETTINGS as it would be if an omitted last field were reset
HvacSettingsResetsOmitted(s, args) ==
    [s EXCEPT !.fancoilState = STATE_OFF,
              !.sensorSettings.TemperatureTargetDegreesCx10 =
                  ToInt16(aDecimalToInt(Field(args, 1))),
              !.sensorSettings.SecondsToThirdStage =
                  IF Len(args) >= 10 THEN aDecimalToInt(args[10]) ELSE 0]

\* HVAC_SETTINGS as it would be if it set the temperatures and left the
\* stage and the outputs alone
HvacSettingsKeepsStage(s, args) ==
    [s EXCEPT !.sensorSettings.TemperatureTargetDegreesCx10 =
                  ToInt16(aDecimalToInt(Field(args, 1))),
              !.sensorSettings.TemperatureActivateDegreesCx10 =
                  ActivateTemperatureFromTarget(s.MyTypeNumber,
                                                ToInt16(aDecimalToInt(Field(args, 1))))]

\* HVAC_SETTINGS: the fields are taken in order until the text ends; the
\* OffOnExit destructor then writes the always-on (and fan) outputs
HvacSettingsCommand(s, args) ==
    LET n == Len(args)
        old == s.sensorSettings
        target == ToInt16(aDecimalToInt(Field(args, 1)))
        new == [ TemperatureTargetDegreesCx10 |-> target,
                 TemperatureActivateDegreesCx10 |->
                     IF n >= 2 THEN ToInt16(aDecimalToInt(args[2]))
                     ELSE ActivateTemperatureFromTarget(s.MyTypeNumber, target),
                 SensorMask |-> IF n >= 3 THEN aHexToInt(args[3]) ELSE old.SensorMask,
                 MaskFanOnly |-> IF n >= 4 THEN Low8(aHexToInt(args[4])) ELSE old.MaskFanOnly,
                 AlwaysOnMask |-> IF n >= 5 THEN Low8(aHexToInt(args[5])) ELSE old.AlwaysOnMask,
                 OutputStage1 |-> IF n >= 6 THEN Low8(aHexToInt(args[6])) ELSE old.OutputStage1,
                 OutputStage2 |-> IF n >= 7 THEN Low8(aHexToInt(args[7])) ELSE old.OutputStage2,
                 OutputStage3 |-> IF n >= 8 THEN Low8(aHexToInt(args[8])) ELSE old.OutputStage3,
                 SecondsToSecondStage |->
                     IF n >= 9 THEN aDecimalToInt(args[9]) ELSE old.SecondsToSecondStage,
                 SecondsToThirdStage |->
                     IF n >= 10 THEN aDecimalToInt(args[10]) ELSE old.SecondsToThirdStage ]
        off == IF n >= 5 THEN new.AlwaysOnMask
               ELSE IF s.fanIsOn THEN Or8(old.AlwaysOnMask, old.MaskFanOnly)
               ELSE old.AlwaysOnMask
    IN  UpdateOutputs([s EXCEPT !.fancoilState = STATE_OFF, !.sensorSettings = new], off)

\* HVAC FAN= that also saves the settings
FanCommandCommits(s, on) == CommitSettings([s EXCEPT !.fanIsOn = on])

FanCommand(s, on) ==
    LET s1 == [s EXCEPT !.fanIsOn = on]
    IN  IF on THEN SetOutputBits(s1, s.sensorSettings.MaskFanOnly)
        ELSE IF s.fancoilState = STATE_OFF
             THEN ClearOutputBits(s1, s.sensorSettings.MaskFanOnly)
        ELSE s1

\* ------------------------------------------- mode engine: sensor reports
SENSOR_TIMEOUT_MSEC == 900000
DEHUMIDIFY_HYSTERESIS == 15
HALF_DEGREE_C == 5

\* "T:+20.37": sign, integer digits, and the digits after the point, of
\* which the first is used.  -1 when the packet has no such field.
Absent == [present |-> FALSE, neg |-> FALSE, int |-> <<>>, frac |-> <<>>]

ReportField(cmd, flag) ==
    IF cmd.kind = "REPORT" THEN (IF flag = "T" THEN cmd.T ELSE cmd.R) ELSE Absent

parseForColon(f) ==
    IF ~f.present THEN -1
    ELSE LET whole == ToInt16(U16(aDecimalToInt(f.int) * 10))
             ret == IF f.frac # <<>> THEN ToInt16(whole + Head(f.frac)) ELSE whole
         IN  IF f.neg THEN ToInt16(0 - ret) ELSE ret

DehumidifyState(s) ==
    IF s.MyTypeNumber = HVAC_AUTO THEN s.autoDehumidifyState ELSE s.coolDehumidifyState

SetDehumidifyState(s, v) ==
    IF s.MyTypeNumber = HVAC_AUTO THEN [s EXCEPT !.autoDehumidifyState = v]
    ELSE [s EXCEPT !.coolDehumidifyState = v]

\* a heat type that has no target: it is on at or below the activate
\* temperature and off above it
HeatWithoutTarget(s, degCx10) ==
    LET ss == s.sensorSettings
        cool == IF s.fancoilState = STATE_OFF
                THEN degCx10 >= ss.TemperatureActivateDegreesCx10
                ELSE degCx10 > ss.TemperatureTargetDegreesCx10
    IN  IF s.MyTypeNumber = HVAC_HEAT
        THEN Ret(s, degCx10 <= ss.TemperatureActivateDegreesCx10)
        ELSE IF s.MyTypeNumber = HVAC_AUTO /\ cool
             THEN Ret([s EXCEPT !.autoTarget = ss.TemperatureTargetDegreesCx10], TRUE)
        ELSE Ret(s, cool)

\* a cool type that starts above the activate temperature only and stops
\* below the target only
CoolBeyondSettings(s, degCx10) ==
    LET ss == s.sensorSettings
        heat == IF s.fancoilState = STATE_OFF
                THEN degCx10 <= ss.TemperatureActivateDegreesCx10
                ELSE degCx10 < ss.TemperatureTargetDegreesCx10
        cool == IF s.fancoilState = STATE_OFF
                THEN degCx10 > ss.TemperatureActivateDegreesCx10
                ELSE degCx10 >= ss.TemperatureTargetDegreesCx10
    IN  IF s.MyTypeNumber = HVAC_HEAT THEN Ret(s, heat)
        ELSE IF s.MyTypeNumber = HVAC_AUTO /\ cool
             THEN Ret([s EXCEPT !.autoTarget = ss.TemperatureTargetDegreesCx10], TRUE)
        ELSE Ret(s, cool)

\* false: turn the HVAC off.  HvacAuto also notes the cooling target.
OnReceivedTemperatureInput(s, degCx10) ==
    LET ss == s.sensorSettings
        heat == IF s.fancoilState = STATE_OFF
                THEN degCx10 <= ss.TemperatureActivateDegreesCx10
                ELSE degCx10 < ss.TemperatureTargetDegreesCx10
        cool == IF s.fancoilState = STATE_OFF
                THEN degCx10 >= ss.TemperatureActivateDegreesCx10
                ELSE degCx10 > ss.TemperatureTargetDegreesCx10
    IN  IF s.MyTypeNumber = HVAC_HEAT THEN Ret(s, heat)
        ELSE IF s.MyTypeNumber = HVAC_AUTO /\ cool
             THEN Ret([s EXCEPT !.autoTarget = ss.TemperatureTargetDegreesCx10], TRUE)
        ELSE Ret(s, cool)

\* the output for the time spent since stage 1 began
StageOutput(since, ss, o1, o2, o3) ==
    IF since >= ss.SecondsToThirdStage * 1000 THEN o3
    ELSE IF since >= ss.SecondsToSecondStage * 1000 THEN o2
    ELSE o1

\* HvacAuto's second chance, when cooling is not called for: heating
OnReceivedTemperatureInput2(s, degCx10, mask) ==
    IF s.MyTypeNumber # HVAC_AUTO THEN [s |-> s, mask |-> mask]
    ELSE LET as == s.autoSettings
             needHeat == IF s.heatState = HEAT_OFF
                         THEN degCx10 <= as.TemperatureActivateHeatDegreesCx10
                         ELSE degCx10 < as.TemperatureTargetHeatDegreesCx10
         IN  IF ~needHeat THEN [s |-> [s EXCEPT !.heatState = HEAT_OFF], mask |-> mask]
             ELSE IF s.heatState = HEAT_OFF
                  THEN [s |-> [s EXCEPT !.autoTarget = as.TemperatureTargetHeatDegreesCx10,
                                        !.heatState = HEAT_STAGE1,
                                        !.timeEnteredStage1 = s.millis],
                        mask |-> as.HeatMaskStage1]
             ELSE [s |-> [s EXCEPT !.autoTarget = as.TemperatureTargetHeatDegreesCx10],
                   mask |-> StageOutput(SSub32(s.millis, s.timeEnteredStage1), s.sensorSettings,
                                        as.HeatMaskStage1, as.HeatMaskStage2, as.HeatMaskStage3)]

\* a dehumidifier that is not abandoned, however cold it gets
CoolHumidityNeverAbandoned(s, rhX10, degCx10, mask) ==
    LET cs == s.coolSettings
        needDehumd == IF DehumidifyState(s) = DEHUMDIFY_OFF
                      THEN U16(rhX10) > U16(cs.HumiditySettingX10 + DEHUMIDIFY_HYSTERESIS)
                      ELSE U16(rhX10) > U16(cs.HumiditySettingX10 - DEHUMIDIFY_HYSTERESIS + 65536)
    IN  IF cs.HumiditySettingX10 = 65535 \/ ~needDehumd THEN [s |-> s, mask |-> mask]
        ELSE [s |-> SetDehumidifyState(s, DEHUMIDIFY_ACTIVE),
              mask |-> And8(Or8(mask, cs.MaskDehumidifyBitsOn), Not8(cs.MaskDehumidifyBitsOff))]

CoolOnReceivedHumidityInput(s, rhX10, degCx10, mask) ==
    LET cs == s.coolSettings
        needDehumd == IF DehumidifyState(s) = DEHUMDIFY_OFF
                      THEN U16(rhX10) > U16(cs.HumiditySettingX10 + DEHUMIDIFY_HYSTERESIS)
                      ELSE U16(rhX10) > U16(cs.HumiditySettingX10 - DEHUMIDIFY_HYSTERESIS + 65536)
    IN  IF cs.HumiditySettingX10 = 65535 \/ ~needDehumd THEN [s |-> s, mask |-> mask]
        ELSE IF degCx10 < ToInt16(s.sensorSettings.TemperatureActivateDegreesCx10 - HALF_DEGREE_C)
             THEN [s |-> SetDehumidifyState(s, DEHUMDIFY_OFF), mask |-> mask]
        ELSE [s |-> SetDehumidifyState(s, DEHUMIDIFY_ACTIVE),
              mask |-> And8(Or8(mask, cs.MaskDehumidifyBitsOn), Not8(cs.MaskDehumidifyBitsOff))]

OnReceivedHumidityInput(s, rhX10, degCx10, mask) ==
    IF s.MyTypeNumber = HVAC_COOL \/ (s.MyTypeNumber = HVAC_AUTO /\ s.heatState = HEAT_OFF)
    THEN CoolOnReceivedHumidityInput(s, rhX10, degCx10, mask)
    ELSE [s |-> s, mask |-> mask]

\* SensorMask & (1L << senderid), for the sensor ids 0..31
SensorIsHonoured(mask, senderid) ==
    IF senderid < 16 THEN (mask.lo \div Pow2(senderid)) % 2 = 1
    ELSE (mask.hi \div Pow2(senderid - 16)) % 2 = 1

\* A thermometer's report, from the temperature on: "on" is what
\* OnReceivedTemperatureInput gave.  The stage and its output ...
SensorReportStaged(on, tCx10) ==
    IF ~on.ok
    THEN OnReceivedTemperatureInput2(
             [on.s EXCEPT !.previousActual = U16(tCx10), !.fancoilState = STATE_OFF],
             tCx10, on.s.sensorSettings.AlwaysOnMask)
    ELSE IF on.s.fancoilState = STATE_OFF
         THEN [s |-> [on.s EXCEPT !.previousActual = U16(tCx10),
                                  !.fancoilState = STATE_STAGE1,
                                  !.timeEnteredStage1 = on.s.millis],
               mask |-> on.s.sensorSettings.OutputStage1]
    ELSE [s |-> [on.s EXCEPT !.previousActual = U16(tCx10)],
          mask |-> StageOutput(SSub32(on.s.millis, on.s.timeEnteredStage1),
                               on.s.sensorSettings,
                               on.s.sensorSettings.OutputStage1,
                               on.s.sensorSettings.OutputStage2,
                               on.s.sensorSettings.OutputStage3)]

\* ... the humidity, when the report carries one ...
SensorReportHumidity(staged, rhx10, tCx10) ==
    IF rhx10 > 0 THEN OnReceivedHumidityInput(staged.s, rhx10, tCx10, staged.mask) ELSE staged

\* ... and the write, with the fan bits when the fan is on
SensorReportOutput(r) ==
    UpdateOutputs(r.s, IF r.s.fanIsOn THEN Or8(r.mask, r.s.sensorSettings.MaskFanOnly)
                       ELSE r.mask)

\* the report of a sensor this mode listens to, once it is due to be heard
SensorReportHeard(s, tCx10, rhx10) ==
    IF tCx10 = -1 THEN Ret(s, FALSE)
    ELSE Ret(SensorReportOutput(SensorReportHumidity(
                 SensorReportStaged(OnReceivedTemperatureInput(s, tCx10), tCx10),
                 rhx10, tCx10)),
             TRUE)

\* a report handler that hears every thermometer of the mask, in any order
SensorReportUnarbitrated(s, cmd, senderid) ==
    IF ~SensorIsHonoured(s.sensorSettings.SensorMask, senderid) THEN Ret(s, FALSE)
    ELSE SensorReportHeard(
             [s EXCEPT !.lastHeardFromSensor = s.millis, !.lastHeardSensorId = senderid],
             parseForColon(ReportField(cmd, "T")), parseForColon(ReportField(cmd, "R")))

\* a packet that was not addressed to this node: a thermometer's report
SensorReport(s, cmd, senderid) ==
    IF ~SensorIsHonoured(s.sensorSettings.SensorMask, senderid) THEN Ret(s, FALSE)
    ELSE IF /\ s.lastHeardSensorId > 0
            /\ senderid > s.lastHeardSensorId
            /\ Sub32(s.millis, s.lastHeardFromSensor) < SENSOR_TIMEOUT_MSEC
         THEN Ret(s, TRUE)
    ELSE SensorReportHeard(
             [s EXCEPT !.lastHeardFromSensor = s.millis, !.lastHeardSensorId = senderid],
             parseForColon(ReportField(cmd, "T")), parseForColon(ReportField(cmd, "R")))

SensorProcessCommand(s, cmd, senderid, toMe) ==
    The({ IF base.ok THEN base
          ELSE IF toMe
               THEN IF cmd.kind = "FAN" THEN Ret(FanCommand(s, cmd.on), TRUE)
                    ELSE IF cmd.kind = "HVAC_SETTINGS"
                         THEN Ret(HvacSettingsCommand(s, cmd.args), TRUE)
                    ELSE Ret(s, FALSE)
          ELSE SensorReport(s, cmd, senderid)
        : base \in {HvacCommandsProcessCommand(s, cmd, toMe)} })

\* HUM_SETTINGS: the bare keyword switches dehumidifying off
HumSettingsCommand(s, args) ==
    LET n == Len(args)
        old == s.coolSettings
    IN  [s EXCEPT !.coolSettings =
            [ HumiditySettingX10 |-> IF n >= 1 THEN aDecimalToInt(args[1]) ELSE 65535,
              MaskDehumidifyBitsOn |->
                  IF n >= 2 THEN Low8(aHexToInt(args[2])) ELSE old.MaskDehumidifyBitsOn,
              MaskDehumidifyBitsOff |->
                  IF n >= 3 THEN Low8(aHexToInt(args[3])) ELSE old.MaskDehumidifyBitsOff ]]

CoolProcessCommand(s, cmd, senderid, toMe) ==
    The({ IF sensor.ok THEN sensor
          ELSE IF toMe /\ cmd.kind = "HUM_SETTINGS"
               THEN Ret(HumSettingsCommand(sensor.s, cmd.args), TRUE)
          ELSE Ret(sensor.s, FALSE)
        : sensor \in {SensorProcessCommand(s, cmd, senderid, toMe)} })

\* AUTO_SETTINGS: the heating half of AUTO; the bare keyword changes nothing
AutoSettingsCommand(s, args) ==
    LET n == Len(args)
        old == s.autoSettings
        target == ToInt16(aDecimalToInt(Field(args, 1)))
        m1 == Low8(aHexToInt(Field(args, 3)))
    IN  IF n = 0 THEN s
        ELSE [s EXCEPT !.autoSettings =
                [ TemperatureTargetHeatDegreesCx10 |-> target,
                  TemperatureActivateHeatDegreesCx10 |->
                      IF n >= 2 THEN ToInt16(aDecimalToInt(args[2])) ELSE ToInt16(target - 6),
                  HeatMaskStage1 |-> IF n >= 3 THEN m1 ELSE old.HeatMaskStage1,
                  HeatMaskStage2 |-> IF n >= 4 THEN Low8(aHexToInt(args[4]))
                                     ELSE IF n >= 3 THEN m1 ELSE old.HeatMaskStage2,
                  HeatMaskStage3 |-> IF n >= 5 THEN Low8(aHexToInt(args[5]))
                                     ELSE IF n >= 3 THEN m1 ELSE old.HeatMaskStage3 ]]

AutoProcessCommand(s, cmd, senderid, toMe) ==
    The({ IF cool.ok THEN cool
          ELSE IF cmd.kind = "AUTO_SETTINGS"
               THEN Ret(AutoSettingsCommand(cool.s, cmd.args), TRUE)
          ELSE Ret(cool.s, FALSE)
        : cool \in {CoolProcessCommand(s, cmd, senderid, toMe)} })

\* hvac->ProcessCommand
HvacProcessCommand(s, cmd, senderid, toMe) ==
    CASE s.MyTypeNumber = HVAC_MAPINPUTTOOUTPUT -> MapProcessCommand(s, cmd, toMe)
      [] s.MyTypeNumber = HVAC_HEAT -> SensorProcessCommand(s, cmd, senderid, toMe)
      [] s.MyTypeNumber = HVAC_COOL -> CoolProcessCommand(s, cmd, senderid, toMe)
      [] s.MyTypeNumber = HVAC_AUTO -> AutoProcessCommand(s, cmd, senderid, toMe)
      [] OTHER -> HvacCommandsProcessCommand(s, cmd, toMe)

\* -------------------------------------------------- the sketch: commands
\* ProcessCommand of the sketch: the settings kept by the .ino file
ProcessCommand(s, cmd) ==
    CASE cmd.kind = "COMPRESSOR" ->
            IF Len(cmd.args) < 2 THEN Ret(s, FALSE)
            ELSE Ret([s EXCEPT !.EEPROM.COMPRESSOR_MASK = Low8(aHexToInt(cmd.args[1])),
                               !.EEPROM.COMPRESSOR_HOLD_SECONDS = aDecimalToInt(cmd.args[2])],
                     TRUE)
      [] cmd.kind = "HS" /\ cmd.sel = "C" ->
            Ret([s EXCEPT !.EEPROM.HEATSAFETY_TRIGGER_TEMPERATURECx10 =
                              aDecimalToInt(Field(cmd.args, 1))], TRUE)
      [] cmd.kind = "HS" /\ cmd.sel = "T" ->
            Ret([s EXCEPT !.EEPROM.HEATSAFETY_HOLD_SECONDS =
                              aDecimalToInt(Field(cmd.args, 1))], TRUE)
      [] cmd.kind = "HS" /\ cmd.sel \in {"1", "2", "3"} ->
            LET which == CASE cmd.sel = "1" -> 0 [] cmd.sel = "2" -> 1 [] OTHER -> 2
                n == Len(cmd.args)
                m == [ dontCareMask |-> Low8(aHexToInt(Field(cmd.args, 1))),
                       mustMatchMask |-> IF n >= 2 THEN Low8(aHexToInt(cmd.args[2])) ELSE 0,
                       toClear |-> IF n >= 3 THEN Low8(aHexToInt(cmd.args[3])) ELSE 0 ]
            IN  Ret([s EXCEPT !.EEPROM.HEATSAFETY_MAP[which + 1] = m], TRUE)
      [] cmd.kind = "SE" ->
            LET which == aDecimalToInt(Field(cmd.args, 1)) % 256
                se == [ degreesCx5 |-> (aDecimalToInt(Field(cmd.args, 2)) \div 2) % 256,
                        TimeOfDayHour |-> aDecimalToInt(Field(cmd.args, 3)) % 32,
                        TimeOfDayMinute |-> aDecimalToInt(Field(cmd.args, 4)) % 64,
                        DaysOfWeek |-> aHexToInt(Field(cmd.args, 5)).lo % 128,
                        AutoMode |-> IF /\ Field(cmd.args, 6) # <<>>
                                        /\ Head(Field(cmd.args, 6)) = 1
                                     THEN 1 ELSE 0 ]
            IN  IF which >= NUM_SCHEDULE_TEMPERATURE_ENTRIES THEN Ret(s, FALSE)
                ELSE Ret([s EXCEPT !.EEPROM.SCHEDULE_TEMPERATURE_ENTRIES[which + 1] = se],
                         TRUE)
      [] OTHER -> Ret(s, FALSE)

\* itoa(n, buf, 10) for n >= 0, as digit values
RECURSIVE Digits(_)
Digits(n) == IF n < 10 THEN <<n>> ELSE Append(Digits(n \div 10), n % 10)

\* The text setTemperatureCx10 builds, as the handlers will read it.
\* "HVAC_SETTINGS " + itoa(t): a minus sign ends the first number at once and
\* the digits are taken as the second.  "AUTO_SETTINGS" + itoa(t): there is
\* no separator, and the handler skips one character after the keyword.
TemperatureCommand(t, autoMode) ==
    IF autoMode
    THEN [kind |-> "AUTO_SETTINGS",
          args |-> IF t < 0 THEN <<Digits(0 - t)>> ELSE <<Tail(Digits(t))>>]
    ELSE [kind |-> "HVAC_SETTINGS",
          args |-> IF t < 0 THEN << <<>>, Digits(0 - t) >> ELSE <<Digits(t)>>]

\* routeCommand, which setTemperatureCx10 re-enters with the text it builds
RECURSIVE routeCommand(_, _, _, _)
setTemperatureCx10(s, t, autoMode) ==
    routeCommand(s, TemperatureCommand(t, autoMode), 255, TRUE)

\* routeCommand, the command the mode took: s is the memory before it, r what
\* hvac->ProcessCommand gave
routeCommandAccepted(s, r) ==
    [ (IF /\ TargetIsKnown(s)
          /\ r.s.MyTypeNumber = s.MyTypeNumber
          /\ r.s.MyModeNumber # s.MyModeNumber
       THEN setTemperatureCx10(r.s, TargetCx10(s), FALSE)
       ELSE r.s) EXCEPT !.InputsToHvacFlag = TRUE ]

\* routeCommand, the else branch: the command is offered to the mode
routeCommandToHvac(s, r) == IF r.ok THEN routeCommandAccepted(s, r) ELSE r.s

\* routeCommand as it would be if the sketch took every packet for its own
routeCommandUngated(s, cmd, senderid, toMe) ==
    The({ IF main.ok THEN main.s
          ELSE routeCommandToHvac(s, HvacProcessCommand(s, cmd, senderid, toMe))
        : main \in {ProcessCommand(s, cmd)} })

routeCommand(s, cmd, senderid, toMe) ==
    The({ IF main.ok THEN main.s
          ELSE routeCommandToHvac(s, HvacProcessCommand(s, cmd, senderid, toMe))
        : main \in {IF toMe THEN ProcessCommand(s, cmd) ELSE Ret(s, FALSE)} })

\* ------------------------------------------------------ the sketch: modes
\* the table entry is requested whatever it holds
OnInputsChangedNoSentinel(s, inputs) ==
    CASE s.MyTypeNumber = HVAC_PASSTHROUGH ->
            UpdateOutputs(s, And8(INPUT_SIGNAL_MASK, inputs))
      [] s.MyTypeNumber = HVAC_MAPINPUTTOOUTPUT ->
            UpdateOutputs(s, s.inputToOutput[(And8(inputs, INPUT_SIGNAL_MASK)
                                              \div Pow2(BN_FIRST_SIGNAL)) + 1])
      [] OTHER -> s

OnInputsChanged(s, inputs) ==
    CASE s.MyTypeNumber = HVAC_PASSTHROUGH ->
            UpdateOutputs(s, And8(INPUT_SIGNAL_MASK, inputs))
      [] s.MyTypeNumber = HVAC_MAPINPUTTOOUTPUT ->
            LET in == And8(inputs, INPUT_SIGNAL_MASK)
                value == s.inputToOutput[(in \div Pow2(BN_FIRST_SIGNAL)) + 1]
            IN  UpdateOutputs(s, IF value = 255 THEN in ELSE value)
      [] OTHER -> s

\* a thermometer that is never found silent
SensorNeverTimedOut(s, t) == FALSE

isSensorTimedOut(s, t) ==
    SSub32(t, s.lastHeardFromSensor) > s.sensorSettings.SecondsToThirdStage * 2000

\* a loop that leaves the stages to the reports
SensorLoopWithoutStages(s, t) == s

\* OverrideAndDriveFromSensors::loop
SensorLoop(s, t) ==
    LET ss == s.sensorSettings
        sinceStage1 == SSub32(t, s.timeEnteredStage1)
    IN  IF s.fancoilState = STATE_OFF THEN s
        ELSE IF isSensorTimedOut(s, t)
             THEN [TurnFurnaceOff([s EXCEPT !.previousActual = 0]) EXCEPT !.fancoilState = STATE_OFF]
        ELSE IF sinceStage1 >= ss.SecondsToThirdStage * 1000
             THEN IF s.fancoilState # STATE_STAGE3
                  THEN UpdateOutputs([s EXCEPT !.fancoilState = STATE_STAGE3], ss.OutputStage3)
                  ELSE s
        ELSE IF sinceStage1 >= ss.SecondsToSecondStage * 1000
             THEN IF s.fancoilState # STATE_STAGE2
                  THEN UpdateOutputs([s EXCEPT !.fancoilState = STATE_STAGE2], ss.OutputStage2)
                  ELSE s
        ELSE s

\* HvacAuto::loop
AutoLoop(s, t) ==
    LET ss == s.sensorSettings
        as == s.autoSettings
        sinceStage1 == SSub32(t, s.timeEnteredStage1)
    IN  IF s.heatState = HEAT_OFF THEN SensorLoop(s, t)
        ELSE IF isSensorTimedOut(s, t)
             THEN [TurnFurnaceOff([s EXCEPT !.previousActual = 0]) EXCEPT !.heatState = HEAT_OFF]
        ELSE IF sinceStage1 >= ss.SecondsToThirdStage * 1000
             THEN IF s.heatState # HEAT_STAGE3
                  THEN UpdateOutputs([s EXCEPT !.heatState = HEAT_STAGE3], as.HeatMaskStage3)
                  ELSE s
        ELSE IF sinceStage1 >= ss.SecondsToSecondStage * 1000
             THEN IF s.heatState # HEAT_STAGE2
                  THEN UpdateOutputs([s EXCEPT !.heatState = HEAT_STAGE2], as.HeatMaskStage2)
                  ELSE s
        ELSE s

\* hvac->loop(now)
HvacLoopOf(s, t) ==
    CASE s.MyTypeNumber \in {HVAC_HEAT, HVAC_COOL} -> SensorLoop(s, t)
      [] s.MyTypeNumber = HVAC_AUTO -> AutoLoop(s, t)
      [] OTHER -> s

\* convert the LM235 ADC read value (64 of them summed) to degrees C times 10
CountForWaterFreezeTempX64 == 54246
degreeCPerCountShift16 == 26400
POWER2_FITS_IN_16 == 19
degreesCx10fromLM235ADCx64(bits10x64) ==
    ToInt16((((bits10x64 - CountForWaterFreezeTempX64) * degreeCPerCountShift16)
             \div Pow2(POWER2_FITS_IN_16)) + 65536)

\* ------------------------------------------------------ power up, setup()
NoTime == 0 - 1
NoCommand == [kind |-> "none"]

BlankEEPROM ==
    [ COMPRESSOR_MASK |-> 255,
      COMPRESSOR_HOLD_SECONDS |-> 65535,
      HEATSAFETY_HOLD_SECONDS |-> 65535,
      HEATSAFETY_TRIGGER_TEMPERATURECx10 |-> 65535,
      HEATSAFETY_MAP |-> [i \in 1..NUM_HEAT_SAFETY_ENTRIES |->
                             [dontCareMask |-> 255, mustMatchMask |-> 255, toClear |-> 255]],
      SCHEDULE_TEMPERATURE_ENTRIES |->
          [i \in 1..NUM_SCHEDULE_TEMPERATURE_ENTRIES |->
              [degreesCx5 |-> 255, TimeOfDayHour |-> 31, TimeOfDayMinute |-> 63,
               DaysOfWeek |-> 127, AutoMode |-> 1]],
      TYPE_AND_MODE |-> <<255, 255>>,
      NUMBER_OF_MODES |-> <<255, 255, 255, 255>>,
      MODES |-> [a \in 0..(EepromModesSize - 1) |-> 255] ]

\* the statics as the C++ start-up code leaves them
StaticInit(ee, t) ==
    [ millis |-> t,
      OutputRegister |-> 0, InputRegister |-> 0,
      InputsToHvacFlag |-> FALSE, LastOutputWrite |-> 0,
      CompressorOffStartTime |-> 0, CompressorOffTimeActive |-> FALSE,
      HeatSafetyOffStartTime |-> 0, HeatSafetyShutoffMask |-> 0,
      HeatSafetyOffTimeActive |-> FALSE,
      relayIsOn |-> FALSE, onAtTime |-> t,
      TinletTemperatureCx10 |-> 0,
      EEPROM |-> ee,
      MyTypeNumber |-> 0, MyModeNumber |-> 0,
      ModeName |-> <<80, 65, 83, 83, 0, 0>>,
      inputToOutput |-> [i \in 1..NUM_INPUT_SIGNAL_COMBINATIONS |-> 0],
      sensorSettings |-> SensorFromBytes([i \in 1..SizeofSensorSettings |-> 0]),
      coolSettings |-> CoolFromBytes([i \in 1..SizeofCoolSettings |-> 0]),
      autoSettings |-> AutoFromBytes([i \in 1..SizeofAutoSettings |-> 0]),
      lastHeardFromSensor |-> 0, lastHeardSensorId |-> 0, timeEnteredStage1 |-> 0,
      fancoilState |-> STATE_OFF, fanIsOn |-> FALSE, previousActual |-> 0,
      coolDehumidifyState |-> DEHUMDIFY_OFF, autoDehumidifyState |-> DEHUMDIFY_OFF,
      heatState |-> HEAT_OFF, autoTarget |-> 0,
      lastScheduleUpdate |-> 0,
      rtc |-> [hours |-> 0, minutes |-> 0, weekday |-> 0],
      LastSeenActive |-> [i \in 0..(NUMBER_OF_SIGNALS - 1) |-> 0],
      LastChecked |-> 0, RestartedChecking |-> 0,
      charsInBuf |-> 0, serialLog |-> <<>>,
      spi |-> <<>>,
      relayPulledInAt |-> NoTime,
      wDifferedAt |-> NoTime,
      committed |-> NothingCommitted ]

\* ThermostatCommon::setup
ThermostatCommonSetup(s) ==
    LET thermoType == s.EEPROM.TYPE_AND_MODE[1]
        thermoMode == s.EEPROM.TYPE_AND_MODE[2]
    IN  IF /\ thermoType < NUMBER_OF_HVAC_TYPES
           /\ thermoMode < NumberOfModesInType(s.EEPROM, thermoType)
        THEN TurnFurnaceOff(ReadSettings(
                 [s EXCEPT !.MyModeNumber = thermoMode, !.MyTypeNumber = thermoType]))
        ELSE s

\* setup(), on the statics of a reset
setup(ee, t) == ThermostatCommonSetup(UpdateOutputs(StaticInit(ee, t), 0))

\* ------------------------------------------------------- command texts
HvacCommand == [kind |-> "HVAC", type |-> None, name |-> None, commit |-> FALSE,
                mode |-> None, count |-> None]
HvacTypeMode(n, m) == [HvacCommand EXCEPT !.type = n, !.mode = m]
HvacTypeCount(n, m) == [HvacCommand EXCEPT !.type = n, !.count = m]
HvacCommit == [HvacCommand EXCEPT !.commit = TRUE]
HvacName(name) == [HvacCommand EXCEPT !.name = name]
HvacSettings(args) == [kind |-> "HVAC_SETTINGS", args |-> args]
HvacMap(addr, vals) == [kind |-> "HVACMAP", addr |-> addr, vals |-> vals]
HvacFan(on) == [kind |-> "FAN", on |-> on]
HumSettings(args) == [kind |-> "HUM_SETTINGS", args |-> args]
AutoSettings(args) == [kind |-> "AUTO_SETTINGS", args |-> args]
Compressor(mask, seconds) == [kind |-> "COMPRESSOR", args |-> <<mask, seconds>>]
HeatSafety(sel, args) == [kind |-> "HS", sel |-> sel, args |-> args]
Report(t) == [kind |-> "REPORT", T |-> t, R |-> Absent]
Reading(neg, int, frac) == [present |-> TRUE, neg |-> neg, int |-> int, frac |-> frac]

RECURSIVE RunCommands(_, _)
RunCommands(s, cmds) ==
    IF cmds = <<>> THEN s
    ELSE The({ RunCommands(next, Tail(cmds))
             : next \in {routeCommand(s, Head(cmds), 255, TRUE)} })

\* the EEPROM of a unit that was blank and was then sent these commands
Installed(cmds) == RunCommands(setup(BlankEEPROM, 0), cmds).EEPROM

\* ------------------------------------------------------------- loop()
\* the timers run out but the outputs are not written again
CompressorHoldExpiryNoWrite(s, t) ==
    IF /\ s.CompressorOffTimeActive
       /\ Sub32(t, s.CompressorOffStartTime) > 1000 * getCompressorHoldSeconds(s.EEPROM)
    THEN [s EXCEPT !.CompressorOffTimeActive = FALSE]
    ELSE s

HeatSafetyHoldExpiryNoWrite(s, t) ==
    IF /\ s.HeatSafetyOffTimeActive
       /\ Sub32(t, s.HeatSafetyOffStartTime) > 1000 * getHeatSafetyHoldSeconds(s.EEPROM)
    THEN [s EXCEPT !.HeatSafetyOffTimeActive = FALSE]
    ELSE s

\* loop(): the compressor short cycle timer runs out
CompressorHoldExpiry(s, t) ==
    IF /\ s.CompressorOffTimeActive
       /\ Sub32(t, s.CompressorOffStartTime) > 1000 * getCompressorHoldSeconds(s.EEPROM)
    THEN SetOutputBits([s EXCEPT !.CompressorOffTimeActive = FALSE], 0)
    ELSE s

\* loop(): the heat safety hold runs out
HeatSafetyHoldExpiry(s, t) ==
    IF /\ s.HeatSafetyOffTimeActive
       /\ Sub32(t, s.HeatSafetyOffStartTime) > 1000 * getHeatSafetyHoldSeconds(s.EEPROM)
    THEN SetOutputBits([s EXCEPT !.HeatSafetyOffTimeActive = FALSE], 0)
    ELSE s

\* the entries of the heat safety table that say the furnace is heating
HeatSafetyMatches(s) ==
    { i \in 0..(NUM_HEAT_SAFETY_ENTRIES - 1) :
        LET m == getHeatSafetyMask(s.EEPROM, i)
        IN  /\ And8(Not8(m.dontCareMask), s.LastOutputWrite) = m.mustMatchMask
            /\ m.toClear # 0 }

\* the last entry that matches, not the first
Highest(S) == CHOOSE i \in S : \A j \in S : i >= j

Lowest(S) == CHOOSE i \in S : \A j \in S : i <= j

\* loop(): check the inlet temperature in heat modes and shut down
HeatSafetyCheck(s) ==
    LET heatSafetySeconds == getHeatSafetyHoldSeconds(s.EEPROM)
        heatSafetyTempCx10 == getHeatSafetyTemperatureCx10(s.EEPROM)
    IN  IF /\ ~s.HeatSafetyOffTimeActive
           /\ heatSafetySeconds > 0 /\ heatSafetySeconds # 65535
           /\ heatSafetyTempCx10 > 0
           /\ heatSafetyTempCx10 <= s.TinletTemperatureCx10
           /\ HeatSafetyMatches(s) # {}
        THEN LET m == getHeatSafetyMask(s.EEPROM, Lowest(HeatSafetyMatches(s)))
             IN  SetOutputBits([s EXCEPT !.HeatSafetyOffStartTime = s.millis,
                                         !.HeatSafetyOffTimeActive = TRUE,
                                         !.HeatSafetyShutoffMask = Not8(m.toClear)], 0)
        ELSE s

\* loop(): the debounced inputs are handed to the mode when they changed
InputsRead(s, previous, inputs) ==
    [ (IF previous # inputs \/ s.InputsToHvacFlag
       THEN SetOutputBits(OnInputsChanged([s EXCEPT !.InputRegister = inputs], inputs), 0)
       ELSE [s EXCEPT !.InputRegister = inputs]) EXCEPT !.InputsToHvacFlag = FALSE ]

Step(s, next) ==
    /\ Store(s)
    /\ pc' = next
    /\ UNCHANGED <<millis, steps, now, previousInputRegister, cmdbuf, reportbuf>>

Tick ==
    /\ pc = "top"
    /\ millis < MaxTicks * TickMsec
    /\ millis' = millis + TickMsec
    /\ spi' = <<>>
    /\ UNCHANGED <<steps, pc, now, previousInputRegister, cmdbuf, reportbuf, ramvars, EEPROM,
                   relayPulledInAt, wDifferedAt, committed>>

LoopTop ==
    /\ pc = "top"
    /\ Store(Mem)
    /\ now' = millis
    /\ previousInputRegister' = InputRegister
    /\ pc' = "compressor"
    /\ UNCHANGED <<millis, steps, cmdbuf, reportbuf>>

CompressorExpiry ==
    /\ pc = "compressor"
    /\ Step(CompressorHoldExpiry(Mem, now), "heatsafety")

HeatSafetyExpiry ==
    /\ pc = "heatsafety"
    /\ Step(HeatSafetyHoldExpiry(Mem, now), "trigger")

HeatSafetyTrigger ==
    /\ pc = "trigger"
    /\ Step(HeatSafetyCheck(Mem), "inputs")

\* The 25 ms / 100 ms debounce of the input pins is finer than the clock of
\* this model: the debounced register may take any of the values.
ReadInputs(values) ==
    /\ pc = "inputs"
    /\ \E inputs \in values : Step(InputsRead(Mem, previousInputRegister, inputs), "adc")

\* The 64 conversions of one temperature report are not followed one by
\* one: a pass either completes a report from the sum of the inlet
\* conversions or does not.
TemperatureIdle ==
    /\ pc = "adc"
    /\ Step(Mem, "serial")

TemperatureReport(sums) ==
    /\ pc = "adc"
    /\ \E TinletADCsum \in sums :
          Step([Mem EXCEPT !.TinletTemperatureCx10 = degreesCx10fromLM235ADCx64(TinletADCsum)],
               "serial")

SerialReceive(cmds) ==
    /\ pc = "serial"
    /\ \E cmd \in cmds : cmdbuf' = cmd
    /\ pc' = "route"
    /\ spi' = <<>>
    /\ UNCHANGED <<millis, steps, now, previousInputRegister, reportbuf, ramvars, EEPROM,
                   relayPulledInAt, wDifferedAt, committed>>

SerialRoute ==
    /\ pc = "route"
    /\ Store(routeCommand(Mem, cmdbuf, 255, TRUE))
    /\ cmdbuf' = NoCommand
    /\ pc' = "serial"
    /\ UNCHANGED <<millis, steps, now, previousInputRegister, reportbuf>>

SerialIdle ==
    /\ pc = "serial"
    /\ Step(Mem, "radio")

RadioReceive(packets) ==
    /\ pc = "radio"
    /\ \E packet \in packets : reportbuf' = packet
    /\ pc' = "radioroute"
    /\ spi' = <<>>
    /\ UNCHANGED <<millis, steps, now, previousInputRegister, cmdbuf, ramvars, EEPROM,
                   relayPulledInAt, wDifferedAt, committed>>

RadioRoute ==
    /\ pc = "radioroute"
    /\ Store(routeCommand(Mem, reportbuf.cmd, reportbuf.senderid, reportbuf.toMe))
    /\ reportbuf' = NoCommand
    /\ pc' = "hvacloop"
    /\ UNCHANGED <<millis, steps, now, previousInputRegister, cmdbuf>>

RadioIdle ==
    /\ pc = "radio"
    /\ Step(Mem, "hvacloop")

HvacLoop ==
    /\ pc = "hvacloop"
    /\ Step(HvacLoopOf(Mem, now), "top")

\* ------------------------------------------------- the unit in service
\* The settings of the unit: a 30 s compressor hold on X2 and X1, a heat
\* safety hold of 30 s at 32.2 C with W and X3 as the heating outputs.
Commissioning ==
    << Compressor(<<6, 0>>, <<3, 0>>),
       HeatSafety("T", << <<3, 0>> >>),
       HeatSafety("C", << <<3, 2, 2>> >>),
       HeatSafety("1", << <<15, 7>>, <<8>>, <<8>> >>),
       HeatSafety("2", << <<7, 15>>, <<8, 0>>, <<8, 0>> >>) >>

\* a map instance: W asks for W and X3, X2 for X2 and X1, X2 and X1 for X2
MapScript ==
    << HvacTypeCount(<<1>>, <<1>>), HvacTypeMode(<<1>>, <<0>>),
       HvacMap(<<4>>, << <<8, 8>> >>), HvacMap(<<1, 0>>, << <<6, 0>> >>),
       HvacMap(<<3, 0>>, << <<2, 0>> >>), HvacName(<<77, 65, 80>>), HvacCommit >>

\* two heat instances on sensor 1, fan on ZX, stages W+X2 and W+X2+X3:
\* "DAY" at 20.0 C and "NIGHT" at 18.0 C
HeatScript ==
    << HvacTypeCount(<<2>>, <<2>>),
       HvacTypeMode(<<2>>, <<0>>),
       HvacSettings(<< <<2, 0, 0>>, <<1, 9, 4>>, <<2>>, <<1, 0>>, <<0>>,
                       <<2, 8>>, <<10, 8>>, <<10, 8>>, <<3, 0>>, <<9, 0>> >>),
       HvacName(<<68, 65, 89>>), HvacCommit,
       HvacTypeMode(<<2>>, <<1>>),
       HvacSettings(<< <<1, 8, 0>>, <<1, 7, 4>>, <<2>>, <<1, 0>>, <<0>>,
                       <<2, 8>>, <<10, 8>>, <<10, 8>>, <<3, 0>>, <<9, 0>> >>),
       HvacName(<<78, 73, 71, 72, 84>>), HvacCommit >>

\* the pass through record, named and committed
PassScript ==
    << HvacTypeMode(<<0>>, <<0>>), HvacName(<<80, 65, 83, 83>>), HvacCommit >>

\* the unit as installed: commissioned, with one map instance, which is the
\* mode of the last power down
Installation == Installed(Commissioning \o MapScript)

InputValues == {0, 8, 32, 96}
AdcSums == {54246, 60700}
\* the operator switches between pass through and the map instance
SerialCommands == {HvacTypeMode(<<0>>, <<0>>), HvacTypeMode(<<1>>, <<0>>)}
\* a thermometer that broadcasts 19.0 C
RadioPackets ==
    { [cmd |-> Report(Reading(FALSE, <<1, 9>>, <<0>>)), senderid |-> 1, toMe |-> FALSE] }

InitFrom(s) ==
    /\ millis = s.millis
    /\ pc = "top"
    /\ now = s.millis
    /\ previousInputRegister = 0
    /\ cmdbuf = NoCommand
    /\ reportbuf = NoCommand
    /\ OutputRegister = s.OutputRegister
    /\ InputRegister = s.InputRegister
    /\ InputsToHvacFlag = s.InputsToHvacFlag
    /\ LastOutputWrite = s.LastOutputWrite
    /\ CompressorOffStartTime = s.CompressorOffStartTime
    /\ CompressorOffTimeActive = s.CompressorOffTimeActive
    /\ HeatSafetyOffStartTime = s.HeatSafetyOffStartTime
    /\ HeatSafetyShutoffMask = s.HeatSafetyShutoffMask
    /\ HeatSafetyOffTimeActive = s.HeatSafetyOffTimeActive
    /\ relayIsOn = s.relayIsOn
    /\ onAtTime = s.onAtTime
    /\ TinletTemperatureCx10 = s.TinletTemperatureCx10
    /\ EEPROM = s.EEPROM
    /\ MyTypeNumber = s.MyTypeNumber
    /\ MyModeNumber = s.MyModeNumber
    /\ ModeName = s.ModeName
    /\ inputToOutput = s.inputToOutput
    /\ sensorSettings = s.sensorSettings
    /\ coolSettings = s.coolSettings
    /\ autoSettings = s.autoSettings
    /\ lastHeardFromSensor = s.lastHeardFromSensor
    /\ lastHeardSensorId = s.lastHeardSensorId
    /\ timeEnteredStage1 = s.timeEnteredStage1
    /\ fancoilState = s.fancoilState
    /\ fanIsOn = s.fanIsOn
    /\ previousActual = s.previousActual
    /\ coolDehumidifyState = s.coolDehumidifyState
    /\ autoDehumidifyState = s.autoDehumidifyState
    /\ heatState = s.heatState
    /\ autoTarget = s.autoTarget
    /\ lastScheduleUpdate = s.lastScheduleUpdate
    /\ rtc = s.rtc
    /\ LastSeenActive = s.LastSeenActive
    /\ LastChecked = s.LastChecked
    /\ RestartedChecking = s.RestartedChecking
    /\ charsInBuf = s.charsInBuf
    /\ serialLog = s.serialLog
    /\ spi = s.spi
    /\ relayPulledInAt = s.relayPulledInAt
    /\ wDifferedAt = s.wDifferedAt
    /\ committed = s.committed
    /\ steps = 0

Init == InitFrom(setup(Installation, 0))

Next ==
    \/ Tick
    \/ LoopTop
    \/ CompressorExpiry
    \/ HeatSafetyExpiry
    \/ HeatSafetyTrigger
    \/ ReadInputs(InputValues)
    \/ TemperatureIdle
    \/ TemperatureReport(AdcSums)
    \/ SerialReceive(SerialCommands)
    \/ SerialRoute
    \/ SerialIdle
    \/ RadioReceive(RadioPackets)
    \/ RadioRoute
    \/ RadioIdle
    \/ HvacLoop

Spec == Init /\ [][Next]_vars

\* ------------------------------------------- the unit with several modes
\* A unit with pass through, one map instance and the two heat instances,
\* all committed, and no cool or auto instance; it powers up in "NIGHT".
SelectInstallation == Installed(PassScript \o MapScript \o HeatScript)

\* HVAC TYPE=n MODE=m as the operator may type it
SelectCommands ==
    { HvacTypeMode(<<0>>, <<0>>), HvacTypeMode(<<1>>, <<0>>),
      HvacTypeMode(<<2>>, <<0>>), HvacTypeMode(<<2>>, <<1>>),
      HvacTypeMode(<<1>>, <<1>>), HvacTypeMode(<<2>>, <<2>>),
      HvacTypeMode(<<3>>, <<0>>), HvacTypeMode(<<5>>, <<0>>),
      HvacTypeMode(<<6, 5, 5, 3, 5>>, <<0>>), HvacTypeMode(<<6, 5, 5, 3, 6>>, <<0>>) }

\* a new target, 19.0 C, sent over the radio to this node
SettingsPackets ==
    { [cmd |-> HvacSettings(<< <<1, 9, 0>> >>), senderid |-> 9, toMe |-> TRUE] }

InitSelect == InitFrom(setup(SelectInstallation, 0))

NextSelect ==
    \/ Tick
    \/ LoopTop
    \/ CompressorExpiry
    \/ HeatSafetyExpiry
    \/ HeatSafetyTrigger
    \/ ReadInputs({0, 8})
    \/ TemperatureIdle
    \/ TemperatureReport({54246})
    \/ SerialReceive(SelectCommands)
    \/ SerialRoute
    \/ SerialIdle
    \/ RadioReceive(SettingsPackets)
    \/ RadioRoute
    \/ RadioIdle
    \/ HvacLoop

SpecSelect == InitSelect /\ [][NextSelect]_vars

\* ------------------------------------------- the unit, command by command
\* The same unit seen at the command interface: each step is one whole
\* command routed by routeCommand, one pass of loop() over changed inputs,
\* or a reset.  pc names the kind of the last step.

\* one auto instance on sensor 1: cools at 25.0 C, heats at 17.0 C,
\* dehumidifies at 55.0 %
AutoScript ==
    << HvacTypeCount(<<4>>, <<1>>),
       HvacTypeMode(<<4>>, <<0>>),
       HvacSettings(<< <<2, 5, 0>>, <<2, 5, 6>>, <<2>>, <<1, 0>>, <<0>>,
                       <<4>>, <<6>>, <<6>>, <<3, 0>>, <<9, 0>> >>),
       HumSettings(<< <<5, 5, 0>>, <<4>>, <<1, 0>> >>),
       AutoSettings(<< <<1, 7, 0>>, <<1, 6, 4>>, <<2, 8>>, <<10, 8>>, <<10, 8>> >>),
       HvacName(<<65, 85, 84, 79>>), HvacCommit >>

\* the unit when power is lost: pass through, one map instance, two heat
\* instances and one auto instance, the counts set first and every instance
\* then committed; it was last used in "DAY"
EngineInstallation ==
    RunCommands(setup(BlankEEPROM, 0),
                << HvacTypeCount(<<1>>, <<1>>), HvacTypeCount(<<2>>, <<2>>),
                   HvacTypeCount(<<4>>, <<1>>) >>
                \o PassScript \o MapScript \o HeatScript \o AutoScript
                \o <<HvacTypeMode(<<2>>, <<0>>)>>)

\* power is cycled: the statics start afresh and setup() runs on the EEPROM
Restart(s) == [setup(s.EEPROM, s.millis) EXCEPT !.committed = s.committed]

\* commands that change the working copy only
WorkingCopyCommands ==
    { HvacName(<<88>>), HvacFan(TRUE), HvacFan(FALSE),
      HvacSettings(<< <<1, 9, 0>> >>),
      HumSettings(<< <<5, 0, 0>> >>),
      AutoSettings(<< <<1, 5, 0>> >>),
      HvacMap(<<4>>, << <<2, 1>> >>),
      HvacMap(<<3, 14>>, << <<8>>, <<15, 15>>, <<4>> >>),
      HvacMap(<<4, 0>>, << <<8>> >>) }

\* the commands the operator sends: those, mode selects, new instance
\* counts for the map and heat types, and COMMIT
EngineCommands ==
    WorkingCopyCommands \cup
    { HvacTypeMode(<<0>>, <<0>>), HvacTypeMode(<<1>>, <<0>>),
      HvacTypeMode(<<2>>, <<0>>), HvacTypeMode(<<2>>, <<1>>),
      HvacTypeMode(<<4>>, <<0>>),
      HvacTypeCount(<<1>>, <<1>>), HvacTypeCount(<<1>>, <<2>>),
      HvacTypeCount(<<1>>, <<2, 5, 5>>), HvacTypeCount(<<1>>, <<2, 5, 7>>),
      HvacTypeCount(<<2>>, <<1>>), HvacTypeCount(<<2>>, <<2>>),
      HvacCommit }

\* the thermostat wires as the unit may see them; 9 has R and W active
EngineInputs == {0, 8, 9, 32, 40}

\* a command arrives on the serial port and is routed
\* the number of steps the unit is followed for
MaxSteps == 4

EngineCommand(cmds) ==
    \E cmd \in cmds :
        /\ cmdbuf' = cmd
        /\ steps < MaxSteps
        /\ steps' = steps + 1
        /\ pc' = "command"
        /\ Store(routeCommand(Mem, cmd, 255, TRUE))
        /\ UNCHANGED <<millis, now, previousInputRegister, reportbuf>>

\* loop() finds the thermostat wires changed, or a command just handled
EngineReadInputs(values) ==
    \E inputs \in values :
        /\ InputsToHvacFlag \/ inputs # InputRegister
        /\ steps < MaxSteps
        /\ steps' = steps + 1
        /\ pc' = "inputs"
        /\ Store(InputsRead(Mem, InputRegister, inputs))
        /\ UNCHANGED <<millis, now, previousInputRegister, reportbuf, cmdbuf>>

PowerUp ==
    /\ steps < MaxSteps
    /\ steps' = steps + 1
    /\ pc' = "setup"
    /\ cmdbuf' = NoCommand
    /\ Store(Restart(Mem))
    /\ UNCHANGED <<millis, now, previousInputRegister, reportbuf>>

InitEngine == InitFrom(Restart(EngineInstallation))

NextEngine ==
    \/ EngineCommand(EngineCommands)
    \/ EngineReadInputs(EngineInputs)
    \/ PowerUp

SpecEngine == InitEngine /\ [][NextEngine]_vars

\* ------------------------------------------- the unit, count by count
\* A unit found with any instance counts in its EEPROM is sent HVAC TYPE=n
\* COUNT=m commands: the layout of the records under every count tuple.
InitCounts ==
    \E n \in [1..(NUMBER_OF_HVAC_TYPES - 1) -> {0, 1, 2, 9, 255}] :
        InitFrom(setup([BlankEEPROM EXCEPT !.NUMBER_OF_MODES = n], 0))

NextCounts ==
    EngineCommand({ HvacTypeCount(n, m) :
                        n \in {<<1>>, <<2>>, <<3>>, <<4>>},
                        m \in {<<0>>, <<1>>, <<2>>, <<9>>, <<2, 5, 5>>,
                               <<2, 5, 6>>, <<2, 5, 8>>} })

SpecCounts == InitCounts /\ [][NextCounts]_vars

\* ------------------------------------------- the unit heating in stages
\* A unit that powers up in a heat instance at 20.0 C on sensor 1, with W,
\* W+X2 and W+X2+X3 as its stages, 30 s to the second and 60 s to the
\* third, and hears a thermometer report 19.0 C or 21.0 C now and then;
\* the operator turns the fan, on ZX, on and off.
InitStage ==
    InitFrom(setup(Installed(
        HeatScript \o
        << HvacTypeMode(<<2>>, <<0>>),
           HvacSettings(<< <<2, 0, 0>>, <<1, 9, 4>>, <<2>>, <<1, 0>>, <<0>>,
                           <<8>>, <<2, 8>>, <<10, 8>>, <<3, 0>>, <<6, 0>> >>),
           HvacCommit >>), 0))

NextStage ==
    \/ Tick
    \/ LoopTop
    \/ CompressorExpiry
    \/ HeatSafetyExpiry
    \/ HeatSafetyTrigger
    \/ ReadInputs({0})
    \/ TemperatureIdle
    \/ SerialReceive({HvacFan(TRUE), HvacFan(FALSE)})
    \/ SerialRoute
    \/ SerialIdle
    \/ RadioReceive({ [cmd |-> Report(Reading(FALSE, t, <<0>>)), senderid |-> 1,
                       toMe |-> FALSE] : t \in {<<1, 9>>, <<2, 1>>} })
    \/ RadioRoute
    \/ RadioIdle
    \/ HvacLoop

SpecStage == InitStage /\ [][NextStage]_vars

\* ------------------------------------------- the unit on its thermometers
\* A unit with one heat, one cool and one auto instance, all listening to the
\* thermometers 8 and 9, with the fan on ZX and Z1 always on:
\*   heat  target 20.0 C, activate 19.4 C, stages W, W+X2, W+X2+X3;
\*   cool  target 19.4 C, activate 20.0 C, stages X2, X2+X1, X2+X1,
\*         dehumidifies at 55.0 % with Z2 on and X1 off;
\*   auto  cools to 20.0 C from 21.0 C, heats to 19.7 C from 19.0 C.
\* The second and the third stage are both due 300 s after the first.
SensorScript ==
    << HvacTypeCount(<<2>>, <<1>>), HvacTypeCount(<<3>>, <<1>>), HvacTypeCount(<<4>>, <<1>>),
       HvacTypeMode(<<2>>, <<0>>),
       HvacSettings(<< <<2, 0, 0>>, <<1, 9, 4>>, <<3, 0, 0>>, <<1, 0>>, <<4>>,
                       <<8>>, <<2, 8>>, <<10, 8>>, <<3, 0, 0>>, <<3, 0, 0>> >>),
       HvacName(<<72, 69, 65, 84>>), HvacCommit,
       HvacTypeMode(<<3>>, <<0>>),
       HvacSettings(<< <<1, 9, 4>>, <<2, 0, 0>>, <<3, 0, 0>>, <<1, 0>>, <<4>>,
                       <<2, 0>>, <<6, 0>>, <<6, 0>>, <<3, 0, 0>>, <<3, 0, 0>> >>),
       HumSettings(<< <<5, 5, 0>>, <<2>>, <<4, 0>> >>),
       HvacName(<<67, 79, 79, 76>>), HvacCommit,
       HvacTypeMode(<<4>>, <<0>>),
       HvacSettings(<< <<2, 0, 0>>, <<2, 1, 0>>, <<3, 0, 0>>, <<1, 0>>, <<4>>,
                       <<2, 0>>, <<6, 0>>, <<6, 0>>, <<3, 0, 0>>, <<3, 0, 0>> >>),
       HumSettings(<< <<5, 5, 0>>, <<2>>, <<4, 0>> >>),
       AutoSettings(<< <<1, 9, 7>>, <<1, 9, 0>>, <<8>>, <<2, 8>>, <<10, 8>> >>),
       HvacName(<<65, 85, 84, 79>>), HvacCommit >>

\* the clock of this unit is followed in steps of 300 s for 900 s
SensorTickMsec == 300000
MaxSensorTicks == 3

\* "C:1769, B:198, T:+20.58 R:45.46" as sent by thermometer id
SensorPacket(id, t, r) ==
    [cmd |-> [kind |-> "REPORT", T |-> t, R |-> r], senderid |-> id, toMe |-> FALSE]

\* The thermometers 8 and 9 report 19.0, 19.4, 19.7, 20.0 or 21.0 C;
\* thermometer 7, which no instance listens to, reports 19.0 C.
ThermometerPackets ==
    { SensorPacket(id, Reading(FALSE, t[1], t[2]), Absent) :
          id \in {8, 9},
          t \in {<< <<1, 9>>, <<0>> >>, << <<1, 9>>, <<4>> >>, << <<1, 9>>, <<7>> >>,
                 << <<2, 0>>, <<0>> >>, << <<2, 1>>, <<0>> >>} }
    \cup
    { SensorPacket(7, Reading(FALSE, <<1, 9>>, <<0>>), Absent) }

\* Thermometer 8 reports 19.0, 19.5, 20.3 or 21.0 C, with no humidity or
\* with 53.5, 55.0, 56.5 or 57.0 %.
HygrometerPackets ==
    { SensorPacket(8, Reading(FALSE, t[1], t[2]), r) :
          t \in {<< <<1, 9>>, <<0>> >>, << <<1, 9>>, <<5>> >>, << <<2, 0>>, <<3>> >>,
                 << <<2, 1>>, <<0>> >>},
          r \in {Absent} \cup
                { Reading(FALSE, h[1], h[2]) :
                      h \in {<< <<5, 3>>, <<5>> >>, << <<5, 5>>, <<0>> >>,
                             << <<5, 6>>, <<5>> >>, << <<5, 7>>, <<0>> >>} } }

\* One pass of loop() at time t with the thermostat wires at rest and
\* nothing on the serial port: the hold timers, the heat safety check, the
\* inputs, the radio packet if one has arrived, and hvac->loop(now).
LoopPass(s, t, packets) ==
    HvacLoopOf(
        The({ IF packets = <<>> THEN heard
              ELSE routeCommand(heard, packets[1].cmd, packets[1].senderid, packets[1].toMe)
            : heard \in {InputsRead(HeatSafetyCheck(HeatSafetyHoldExpiry(
                             CompressorHoldExpiry(s, t), t)), s.InputRegister, 0)} }),
        t)

\* the passes of loop() made while the clock moves on by one step and
\* nothing is received: the time-outs that fell due are found
SensorElapse ==
    /\ millis < MaxSensorTicks * SensorTickMsec
    /\ millis' = millis + SensorTickMsec
    /\ now' = millis'
    /\ pc' = "elapse"
    /\ reportbuf' = NoCommand
    /\ \E next \in {LoopPass([Mem EXCEPT !.millis = millis + SensorTickMsec],
                                millis + SensorTickMsec, <<>>)} : Store(next)
    /\ UNCHANGED <<steps, previousInputRegister, cmdbuf>>

\* a pass of loop() that hears nothing, the clock standing still
SensorIdle ==
    /\ pc' = "idle"
    /\ reportbuf' = NoCommand
    /\ \E next \in {LoopPass(Mem, millis, <<>>)} : Store(next)
    /\ UNCHANGED <<millis, steps, now, previousInputRegister, cmdbuf>>

\* a pass of loop() in which a packet has arrived on the radio
SensorHears(packets) ==
    \E packet \in packets :
        /\ reportbuf' = packet
        /\ pc' = "hears"
        /\ \E next \in {LoopPass(Mem, millis, <<packet>>)} : Store(next)
        /\ UNCHANGED <<millis, steps, now, previousInputRegister, cmdbuf>>

\* the unit powers up in its heat or in its cool instance and hears the
\* thermometers
InitSensor ==
    \E t \in {<<2>>, <<3>>} :
        InitFrom(setup(Installed(SensorScript \o <<HvacTypeMode(t, <<0>>)>>), 0))

NextSensor ==
    \/ SensorElapse
    \/ SensorIdle
    \/ SensorHears(ThermometerPackets)

SpecSensor == InitSensor /\ [][NextSensor]_vars

\* the unit powers up in its cool or in its auto instance and hears a
\* thermometer that also reports the humidity
InitHumid ==
    \E t \in {<<3>>, <<4>>} :
        InitFrom(setup(Installed(SensorScript \o <<HvacTypeMode(t, <<0>>)>>), 0))

NextHumid ==
    \/ SensorElapse
    \/ SensorIdle
    \/ SensorHears(HygrometerPackets)

SpecHumid == InitHumid /\ [][NextHumid]_vars

\* ------------------------------------------------- properties of Spec
\* C1: with a compressor mask configured, an output update that takes the
\* masked bits from some on to all off starts the hold timer, and every
\* output update made while the timer is active writes all masked bits off,
\* whatever mask is requested.
C1_CompressorLockout ==
    \A i \in 1..Len(spi) :
        LET e == spi[i]
        IN  /\ ( /\ e.compressorMask # 0
                 /\ And8(e.before, e.compressorMask) # 0
                 /\ And8(e.out, e.compressorMask) = 0 )
               => (e.lockout /\ e.lockoutStart = e.at)
            /\ e.lockout => And8(e.out, e.compressorMask) = 0

\* an update made later in a lockout that asks for a compressor bit
C1_Witness ==
    \E i \in 1..Len(spi) :
        /\ spi[i].lockout
        /\ spi[i].at > spi[i].lockoutStart
        /\ ~spi[i].heatSafety
        /\ And8(spi[i].requested, spi[i].compressorMask) # 0
        /\ And8(spi[i].out, spi[i].compressorMask) = 0

\* C2: in every state where the heat safety shutdown is active, no output
\* bit of the triggered entry's toClear mask is on in the output register.
C2_HeatSafetyMasking ==
    HeatSafetyOffTimeActive =>
        And8(OutputRegister, And8(Not8(HeatSafetyShutoffMask), OUTPUT_SIGNAL_MASK)) = 0

\* the shutdown is active while the mode asks for a bit it clears
C2_Witness ==
    /\ HeatSafetyOffTimeActive
    /\ And8(LastOutputWrite, Not8(HeatSafetyShutoffMask)) # 0
    /\ And8(OutputRegister, Not8(HeatSafetyShutoffMask)) = 0

\* C3: in a pass of loop() that comes to the heat safety check with the
\* shutdown not active, the hold seconds and the trigger temperature set
\* (not zero, not the erased value), the inlet temperature at or above the
\* trigger temperature, and some entry i with (~dontCare_i & last requested
\* output) = mustMatch_i and toClear_i # 0, the shutdown is active after the
\* check, with the toClear of the lowest such i in force and the outputs
\* written again.
C3_HeatSafetyTrigger ==
    [][ \A i \in 0..(NUM_HEAT_SAFETY_ENTRIES - 1) :
          ( /\ pc = "trigger"
            /\ ~HeatSafetyOffTimeActive
            /\ EEPROM.HEATSAFETY_HOLD_SECONDS \notin {0, 65535}
            /\ EEPROM.HEATSAFETY_TRIGGER_TEMPERATURECx10 \notin {0, 65535}
            /\ ToInt16(EEPROM.HEATSAFETY_TRIGGER_TEMPERATURECx10) <= TinletTemperatureCx10
            /\ And8(Not8(EEPROM.HEATSAFETY_MAP[i + 1].dontCareMask), LastOutputWrite)
                   = EEPROM.HEATSAFETY_MAP[i + 1].mustMatchMask
            /\ EEPROM.HEATSAFETY_MAP[i + 1].toClear # 0
            /\ \A j \in 0..(i - 1) :
                  \/ And8(Not8(EEPROM.HEATSAFETY_MAP[j + 1].dontCareMask), LastOutputWrite)
                         # EEPROM.HEATSAFETY_MAP[j + 1].mustMatchMask
                  \/ EEPROM.HEATSAFETY_MAP[j + 1].toClear = 0 )
          => ( /\ HeatSafetyOffTimeActive'
               /\ HeatSafetyOffStartTime' = millis
               /\ HeatSafetyShutoffMask' = Not8(EEPROM.HEATSAFETY_MAP[i + 1].toClear)
               /\ spi' # <<>>
               /\ And8(OutputRegister', OUTPUT_SIGNAL_MASK)
                      = And8(And8(LastOutputWrite, Not8(EEPROM.HEATSAFETY_MAP[i + 1].toClear)),
                             IF CompressorOffTimeActive'
                             THEN Not8(getCompressorMask(EEPROM)) ELSE 255) ) ]_vars

\* the trigger block has just shut W down while entries 1 and 2 both matched W + X3
C3_Witness ==
    /\ pc = "inputs"
    /\ spi # <<>>
    /\ HeatSafetyOffTimeActive
    /\ HeatSafetyOffStartTime = millis
    /\ LastOutputWrite = Bit(BN_W) + Bit(BN_X3)
    /\ HeatSafetyShutoffMask = Not8(Bit(BN_W))
    /\ And8(OutputRegister, OUTPUT_SIGNAL_MASK) = Bit(BN_X3)

\* C4: once the heat safety shutdown has been active for longer than the
\* hold seconds, loop() ends it and the output is again the mask the mode
\* requested last, no longer masked by ~toClear.
C4_HeatSafetyRelease ==
    [][ ( /\ pc = "heatsafety"
          /\ HeatSafetyOffTimeActive
          /\ now - HeatSafetyOffStartTime > 1000 * EEPROM.HEATSAFETY_HOLD_SECONDS )
        => ( /\ ~HeatSafetyOffTimeActive'
             /\ LastOutputWrite' = LastOutputWrite
             /\ And8(OutputRegister', OUTPUT_SIGNAL_MASK)
                    = IF CompressorOffTimeActive'
                      THEN And8(LastOutputWrite, Not8(getCompressorMask(EEPROM)))
                      ELSE LastOutputWrite ) ]_vars

\* the hold has just run out and a bit it kept off is on again
C4_Witness ==
    /\ pc = "trigger"
    /\ spi # <<>>
    /\ ~HeatSafetyOffTimeActive
    /\ And8(OutputRegister, And8(Not8(HeatSafetyShutoffMask), OUTPUT_SIGNAL_MASK)) # 0

\* C5: when the compressor hold timer has run longer than the hold seconds,
\* the next pass of loop() ends the lockout and writes the mask requested
\* last again, so that compressor bits requested during the lockout come on
\* without a new request (unless the heat safety shutdown masks them).
C5_CompressorRelease ==
    [][ ( /\ pc = "compressor"
          /\ CompressorOffTimeActive
          /\ now - CompressorOffStartTime > 1000 * EEPROM.COMPRESSOR_HOLD_SECONDS )
        => ( /\ ~CompressorOffTimeActive'
             /\ LastOutputWrite' = LastOutputWrite
             /\ And8(OutputRegister', OUTPUT_SIGNAL_MASK)
                    = IF HeatSafetyOffTimeActive
                      THEN And8(LastOutputWrite, HeatSafetyShutoffMask)
                      ELSE LastOutputWrite ) ]_vars

\* the lockout has just ended and a compressor bit is on
C5_Witness ==
    /\ pc = "heatsafety"
    /\ spi # <<>>
    /\ ~CompressorOffTimeActive
    /\ And8(OutputRegister, getCompressorMask(EEPROM)) # 0

\* C6: for a compressor mask of several bits, an output update that turns
\* any one of the masked outputs from on to off starts the lockout.
C6_AnyMaskedBitOff ==
    \A i \in 1..Len(spi) :
        And8(And8(spi[i].before, Not8(spi[i].out)), spi[i].compressorMask) # 0
            => spi[i].lockout

\* C7: at the end of every pass of loop(), if the W bit of the output
\* register differs from the W bit of the input register, bit 0 of the
\* output register (the failsafe relay) is on.
C7_FailsafeOnOverride ==
    (pc = "top" /\ WBit(OutputRegister) # WBit(InputRegister))
        => And8(OutputRegister, Bit(BN_W_FAILSAFE)) # 0

\* a pass has ended with W driven against the thermostat's W
C7_Witness ==
    /\ pc = "top"
    /\ millis > 0
    /\ WBit(OutputRegister) # WBit(InputRegister)
    /\ And8(OutputRegister, Bit(BN_W_FAILSAFE)) # 0

\* C8: once an output update has pulled the failsafe relay in because W out
\* and W in differ, every output update made less than 60 seconds after it
\* sets the failsafe relay bit, also when W out and W in agree again.
C8_FailsafeAntiChatter ==
    \A i \in 1..Len(spi) :
        ( /\ spi[i].pulledInAt # NoTime
          /\ spi[i].at - spi[i].pulledInAt < 60000 )
        => And8(spi[i].out, Bit(BN_W_FAILSAFE)) # 0

\* C8 as stated: every output update made less than 60 seconds after an
\* output update that set the failsafe relay bit while W out and W in
\* differed sets the failsafe relay bit.
C8_HeldAfterAnyDiffer ==
    \A i \in 1..Len(spi) :
        ( /\ spi[i].differedAt # NoTime
          /\ spi[i].at - spi[i].differedAt < 60000 )
        => And8(spi[i].out, Bit(BN_W_FAILSAFE)) # 0

\* a later update in the 60 seconds at which W out and W in agree
C8_Witness ==
    \E i \in 1..Len(spi) :
        /\ spi[i].pulledInAt # NoTime
        /\ spi[i].at > spi[i].pulledInAt
        /\ spi[i].at - spi[i].pulledInAt < 60000
        /\ WBit(spi[i].out) = WBit(spi[i].inputs)
        /\ And8(spi[i].out, Bit(BN_W_FAILSAFE)) # 0

\* ------------------------------------------- properties of SpecSelect
\* the number a decimal field of a command writes
RECURSIVE Written(_)
Written(tok) == IF tok = <<>> THEN 0 ELSE 10 * Written(SubSeq(tok, 1, Len(tok) - 1)) + tok[Len(tok)]

\* C9: an HVAC TYPE=n MODE=m command with n outside 0..4, or with m not
\* less than the instance count of type n, is ignored: the active type and
\* instance, the working settings, the run state, the persisted selection
\* and the outputs are all unchanged.
C9_InvalidSelectIgnored ==
    [][ ( /\ pc = "route"
          /\ cmdbuf.kind = "HVAC" /\ cmdbuf.type # None /\ cmdbuf.mode # None
          /\ \/ Written(cmdbuf.type) \notin 0..4
             \/ Written(cmdbuf.mode) >= NumberOfModesInType(EEPROM, Written(cmdbuf.type)) )
        => UNCHANGED <<ramvars, EEPROM>> ]_vars

\* C10: after a mode select that changes the active type or instance, the
\* working settings of the new instance (name and settings) are the bytes
\* of its committed record, whatever the previous mode was.
C10_SelectLoadsCommitted ==
    [][ ( /\ pc = "route"
          /\ cmdbuf.kind = "HVAC" /\ cmdbuf.type # None /\ cmdbuf.mode # None
          /\ <<MyTypeNumber', MyModeNumber'>> # <<MyTypeNumber, MyModeNumber>>
          /\ EepromGet(EEPROM',
                       AddressOfModeTypeSettings(EEPROM', MyTypeNumber',
                                                 SettingsInstance(Mem', MyTypeNumber')),
                       1)[1] # 255 )
        => ModeName' \o TypeSettingsBytes(Mem', MyTypeNumber')
               = EepromGet(EEPROM',
                           AddressOfModeTypeSettings(EEPROM', MyTypeNumber',
                                                     SettingsInstance(Mem', MyTypeNumber')),
                           SizeofSettings(MyTypeNumber')) ]_vars

\* --------------------------------------------- properties of SpecEngine
\* the step was a mode select that changed the active type or instance
SelectChangedMode ==
    /\ pc' = "command"
    /\ cmdbuf'.kind = "HVAC" /\ cmdbuf'.mode # None
    /\ <<MyTypeNumber', MyModeNumber'>> # <<MyTypeNumber, MyModeNumber>>

\* the step was a reset that found a valid persisted selection
PowerUpLoadedMode ==
    /\ pc' = "setup"
    /\ EEPROM.TYPE_AND_MODE[1] < NUMBER_OF_HVAC_TYPES
    /\ EEPROM.TYPE_AND_MODE[2] < NumberOfModesInType(EEPROM, EEPROM.TYPE_AND_MODE[1])

\* C11: the working settings after a reload of an instance (a power-up into
\* it, or its selection after another mode was active) are the working
\* settings at the most recent HVAC COMMIT issued while it was selected,
\* no instance count having changed since that COMMIT.
C11_ReloadIsLastCommit ==
    [][ ( /\ SelectChangedMode \/ PowerUpLoadedMode
          /\ committed'[<<MyTypeNumber', MyModeNumber'>>].valid )
        => WorkingSettings(Mem', MyTypeNumber')
               = committed'[<<MyTypeNumber', MyModeNumber'>>].working ]_vars

\* the bytes of the active instance's record as the working copy would be
\* written, and as the EEPROM holds them
WorkingBytes == ModeName \o TypeSettingsBytes(Mem, MyTypeNumber)
PersistedBytes ==
    EepromGet(EEPROM,
              AddressOfModeTypeSettings(EEPROM, MyTypeNumber,
                                        SettingsInstance(Mem, MyTypeNumber)),
              SizeofSettings(MyTypeNumber))

\* C12: HVAC NAME=, HVAC FAN=, HVAC_SETTINGS, HUM_SETTINGS, AUTO_SETTINGS
\* and HVACMAP leave the whole EEPROM as it was: every settings record,
\* the instance counts and the persisted selection.
C12_WorkingCopyOnly ==
    [][ (pc' = "command" /\ cmdbuf' \in WorkingCopyCommands) => EEPROM' = EEPROM ]_vars

\* such a command was accepted and the working copy now differs from the
\* record of the active instance
C12_Witness ==
    /\ pc = "command" /\ cmdbuf \in WorkingCopyCommands
    /\ InputsToHvacFlag
    /\ WorkingBytes # PersistedBytes

\* C13: a mode select that changes the active pair persists the new pair
\* and no other step touches the persisted pair; a power-up that finds the
\* persisted pair valid under the counts starts with that pair active and,
\* where the instance was committed and no count changed since, with the
\* committed settings as working settings; a power-up that finds it invalid
\* starts in pass through.
C13_PowerUpDefault ==
    [][ /\ SelectChangedMode => EEPROM'.TYPE_AND_MODE = <<MyTypeNumber', MyModeNumber'>>
        /\ ~SelectChangedMode => EEPROM'.TYPE_AND_MODE = EEPROM.TYPE_AND_MODE
        /\ PowerUpLoadedMode =>
              /\ <<MyTypeNumber', MyModeNumber'>> = EEPROM.TYPE_AND_MODE
              /\ committed'[<<MyTypeNumber', MyModeNumber'>>].valid =>
                    WorkingSettings(Mem', MyTypeNumber')
                        = committed'[<<MyTypeNumber', MyModeNumber'>>].working
        /\ (pc' = "setup" /\ ~PowerUpLoadedMode) =>
              <<MyTypeNumber', MyModeNumber'>> = <<HVAC_PASSTHROUGH, 0>> ]_vars

\* the unit has powered up in "NIGHT" at 18.0 C, which the operator had
\* selected without a COMMIT: power was lost in "DAY" at 20.0 C
C13_Witness ==
    /\ pc = "setup"
    /\ <<MyTypeNumber, MyModeNumber>> = <<HVAC_HEAT, 1>>
    /\ sensorSettings.TemperatureTargetDegreesCx10 = 180
    /\ committed[<<HVAC_HEAT, 1>>].valid

\* the unit has powered up in pass through because the persisted instance
\* no longer exists
C13_WitnessPassThrough ==
    /\ pc = "setup"
    /\ MyTypeNumber = HVAC_PASSTHROUGH
    /\ EEPROM.TYPE_AND_MODE = <<HVAC_HEAT, 1>>

\* C16: in every reachable state the active instance exists: its index is
\* below the count of its type.
C16_ActiveInstanceExists ==
    MyModeNumber < NumberOfModesInType(EEPROM, MyTypeNumber)

\* the six signals that are both inputs and outputs: Z2, Z1, W, ZX, X2, X1
SharedSignals == INPUT_SIGNAL_MASK - Bit(BN_R)

\* C17: when loop() has handed changed inputs to pass through, every mask
\* requested of the outputs in that pass is the input on the six shared
\* signals: X3 is not asserted, and the R input, which has the bit position
\* of the failsafe relay, is not in the requested mask.
C17_PassThroughCopiesInputs ==
    (pc = "inputs" /\ MyTypeNumber = HVAC_PASSTHROUGH) =>
        /\ spi # <<>>
        /\ \A i \in 1..Len(spi) :
              /\ spi[i].requested = And8(InputRegister, SharedSignals)
              /\ And8(spi[i].requested, Bit(BN_X3)) = 0
              /\ And8(spi[i].requested, Bit(BN_W_FAILSAFE)) = 0
        /\ LastOutputWrite = And8(InputRegister, SharedSignals)

\* pass through has seen R and W active and asked for W alone
C17_Witness ==
    /\ pc = "inputs" /\ MyTypeNumber = HVAC_PASSTHROUGH
    /\ InputRegister = Bit(BN_R) + Bit(BN_W)
    /\ LastOutputWrite = Bit(BN_W)

\* the step was an HVACMAP command routed to the map type
MapCommand ==
    /\ pc' = "command" /\ cmdbuf'.kind = "HVACMAP"
    /\ MyTypeNumber = HVAC_MAPINPUTTOOUTPUT

\* the table address of the inputs: the six shared signals, shifted down
MapAddress(inputs) == And8(inputs, SharedSignals) \div Pow2(BN_FIRST_SIGNAL)

\* C18: an HVACMAP command leaves each of its values at its address of the
\* table, addresses counting up from the one given, as far as the table
\* goes, and no other entry changes; when loop() hands changed inputs to the
\* map type, the mask requested is the table entry at the address of the
\* inputs, output bits only, or the six shared signals of the inputs when
\* that entry is 0xFF.
C18_MapRoundTrip ==
    [][ /\ MapCommand =>
              \A a \in 0..(NUM_INPUT_SIGNAL_COMBINATIONS - 1) :
                  inputToOutput'[a + 1] =
                      IF /\ a >= Low8(aHexToInt(cmdbuf'.addr))
                         /\ a - Low8(aHexToInt(cmdbuf'.addr)) < Len(cmdbuf'.vals)
                      THEN Low8(aHexToInt(
                               cmdbuf'.vals[a - Low8(aHexToInt(cmdbuf'.addr)) + 1]))
                      ELSE inputToOutput[a + 1]
        /\ (pc' = "inputs" /\ MyTypeNumber' = HVAC_MAPINPUTTOOUTPUT) =>
              /\ spi' # <<>>
              /\ \A i \in 1..Len(spi') :
                    spi'[i].requested =
                        IF inputToOutput'[MapAddress(InputRegister') + 1] = 255
                        THEN And8(InputRegister', SharedSignals)
                        ELSE And8(inputToOutput'[MapAddress(InputRegister') + 1],
                                  OUTPUT_SIGNAL_MASK) ]_vars

\* HVACMAP=0x4 21 was sent to the map type, then R and W became active:
\* the request is 0x20, the entry without the bit that is no output
C18_Witness ==
    /\ pc = "inputs" /\ MyTypeNumber = HVAC_MAPINPUTTOOUTPUT
    /\ cmdbuf = HvacMap(<<4>>, << <<2, 1>> >>)
    /\ InputRegister = Bit(BN_R) + Bit(BN_W)
    /\ inputToOutput[MapAddress(InputRegister) + 1] = 33
    /\ LastOutputWrite = Bit(BN_X2)

\* W and X2 became active, for which the table holds 0xFF: the request is
\* W and X2
C18_WitnessSentinel ==
    /\ pc = "inputs" /\ MyTypeNumber = HVAC_MAPINPUTTOOUTPUT
    /\ InputRegister = Bit(BN_W) + Bit(BN_X2)
    /\ inputToOutput[MapAddress(InputRegister) + 1] = 255
    /\ LastOutputWrite = Bit(BN_W) + Bit(BN_X2)

\* the HVACMAP command of the step has more values than the table has
\* entries from its address on
MapCommandOverflows ==
    /\ cmdbuf'.vals # <<>>
    /\ Low8(aHexToInt(cmdbuf'.addr)) + Len(cmdbuf'.vals) > NUM_INPUT_SIGNAL_COMBINATIONS

\* C19: an HVACMAP command writes table entries 0..63 and nothing else, in
\* RAM or EEPROM; one whose values run past entry 63 is not handled (the
\* inputs are not flagged for re-evaluation) while the entries its earlier
\* values were written to hold those values; one that fits is handled.
C19_MapCommandBounds ==
    [][ MapCommand =>
          /\ DOMAIN inputToOutput' = 1..NUM_INPUT_SIGNAL_COMBINATIONS
          /\ UNCHANGED <<EEPROM, MyTypeNumber, MyModeNumber, ModeName, sensorSettings,
                         coolSettings, autoSettings, OutputRegister, LastOutputWrite>>
          /\ \A a \in 0..(NUM_INPUT_SIGNAL_COMBINATIONS - 1) :
                ( /\ a >= Low8(aHexToInt(cmdbuf'.addr))
                  /\ a - Low8(aHexToInt(cmdbuf'.addr)) < Len(cmdbuf'.vals) )
                => inputToOutput'[a + 1] =
                       Low8(aHexToInt(cmdbuf'.vals[a - Low8(aHexToInt(cmdbuf'.addr)) + 1]))
          /\ IF MapCommandOverflows
             THEN InputsToHvacFlag' = InputsToHvacFlag
             ELSE InputsToHvacFlag' ]_vars

\* HVACMAP=0x3E 8 FF 4 was not handled, and entries 62 and 63 hold its
\* first two values
C19_Witness ==
    /\ pc = "command" /\ MyTypeNumber = HVAC_MAPINPUTTOOUTPUT
    /\ cmdbuf = HvacMap(<<3, 14>>, << <<8>>, <<15, 15>>, <<4>> >>)
    /\ ~InputsToHvacFlag
    /\ inputToOutput[63] = 8 /\ inputToOutput[64] = 255
    /\ PersistedBytes[SizeofHvacCommandsSettings + 63] # 8

\* --------------------------------------------- properties of SpecCounts
\* C14: under every count tuple the records of a type follow one another
\* at the distance of the type's record size, the first record of a type
\* starts where the records of the type before end, pass through starts
\* the region, and the record sizes are base, base+map, base+sensor,
\* base+sensor+cool and base+sensor+cool+auto.
C14_AddressMonotonicity ==
    /\ AddressOfModeTypeSettings(EEPROM, HVAC_PASSTHROUGH, 0) = 0
    /\ \A t \in 0..(NUMBER_OF_HVAC_TYPES - 1) :
          /\ \A i \in 0..(NumberOfModesInType(EEPROM, t) - 1) :
                AddressOfModeTypeSettings(EEPROM, t, i + 1)
                    = AddressOfModeTypeSettings(EEPROM, t, i) + SizeofSettings(t)
          /\ t + 1 < NUMBER_OF_HVAC_TYPES =>
                AddressOfModeTypeSettings(EEPROM, t + 1, 0)
                    = AddressOfModeTypeSettings(EEPROM, t, NumberOfModesInType(EEPROM, t))
    /\ SizeofSettings(HVAC_PASSTHROUGH) = SizeofHvacCommandsSettings
    /\ SizeofSettings(HVAC_MAPINPUTTOOUTPUT) = SizeofHvacCommandsSettings + SizeofMapSettings
    /\ SizeofSettings(HVAC_HEAT) = SizeofHvacCommandsSettings + SizeofSensorSettings
    /\ SizeofSettings(HVAC_COOL)
          = SizeofHvacCommandsSettings + SizeofSensorSettings + SizeofCoolSettings
    /\ SizeofSettings(HVAC_AUTO)
          = SizeofHvacCommandsSettings + SizeofSensorSettings + SizeofCoolSettings
            + SizeofAutoSettings

\* COUNT commands have left two map, one heat, no cool and two auto
\* instances: the second auto record is at 6 + 2 x 70 + 23 + 34
C14_Witness ==
    /\ pc = "command"
    /\ EEPROM.NUMBER_OF_MODES = <<2, 1, 0, 2>>
    /\ AddressOfModeTypeSettings(EEPROM, HVAC_AUTO, 1) = 203

\* the step was HVAC TYPE=1 COUNT=b
MapCountCommand ==
    /\ pc' = "command"
    /\ cmdbuf'.kind = "HVAC" /\ cmdbuf'.type = <<1>> /\ cmdbuf'.count # None

\* every instance of the heat, cool and auto types has moved by n records
\* of the map type, and nothing but the count byte of the map type was
\* written
MovedByMapRecords(n) ==
    /\ \A t \in HVAC_HEAT..(NUMBER_OF_HVAC_TYPES - 1) :
          \A i \in 0..(NumberOfModesInType(EEPROM, t) - 1) :
              AddressOfModeTypeSettings(EEPROM', t, i)
                  = AddressOfModeTypeSettings(EEPROM, t, i)
                    + n * SizeofSettings(HVAC_MAPINPUTTOOUTPUT)
    /\ EEPROM' = [EEPROM EXCEPT !.NUMBER_OF_MODES[HVAC_MAPINPUTTOOUTPUT] =
                                   EEPROM'.NUMBER_OF_MODES[HVAC_MAPINPUTTOOUTPUT]]

\* C15 as stated: HVAC TYPE=1 COUNT=b, the count being a, moves every
\* instance of the higher types by (b - a) map records and writes only the
\* count byte.
C15_CountMovesByDifference ==
    [][ MapCountCommand =>
            MovedByMapRecords(aDecimalToInt(cmdbuf'.count)
                              - NumberOfModesInType(EEPROM, HVAC_MAPINPUTTOOUTPUT)) ]_vars

\* What the code does for every b: the count byte written is b mod 256 and
\* a byte with all bits set reads as no instance; the instances of the
\* higher types move by (c - a) map records, c being the count that byte
\* reads as, and only the count byte is written.
CountMovesByStoredCount ==
    [][ MapCountCommand =>
            MovedByMapRecords((IF aDecimalToInt(cmdbuf'.count) % 256 = 255 THEN 0
                               ELSE aDecimalToInt(cmdbuf'.count) % 256)
                              - NumberOfModesInType(EEPROM, HVAC_MAPINPUTTOOUTPUT)) ]_vars

\* HVAC TYPE=1 COUNT=255 has left no map instance: the second of two heat
\* instances is at 6 + 23
CountMovesByStoredCountWitness ==
    /\ pc = "command"
    /\ cmdbuf = HvacTypeCount(<<1>>, <<2, 5, 5>>)
    /\ NumberOfModesInType(EEPROM, HVAC_MAPINPUTTOOUTPUT) = 0
    /\ NumberOfModesInType(EEPROM, HVAC_HEAT) = 2
    /\ AddressOfModeTypeSettings(EEPROM, HVAC_HEAT, 1) = 29

C20_WitnessStage3 ==
    /\ pc = "top" /\ MyTypeNumber = HVAC_HEAT /\ fancoilState # STATE_OFF
    /\ now - timeEnteredStage1 >= sensorSettings.SecondsToThirdStage * 1000
    /\ LastOutputWrite = sensorSettings.OutputStage3
    /\ sensorSettings.OutputStage3 # sensorSettings.OutputStage2

\* ------------------------------------------- the unit as it is configured
\* The settings commands with every number of leading fields, the bare
\* keywords included.  The values differ from those of SensorScript.
HvacSettingsFields ==
    << <<2, 1, 5>>, <<2, 2, 3>>, <<2, 0, 0>>, <<2, 0>>, <<4, 4>>,
       <<1, 0>>, <<3, 0>>, <<7, 0>>, <<1, 2, 0>>, <<2, 4, 0>> >>

HumSettingsFields == << <<4, 8, 0>>, <<1, 0>>, <<2, 0>> >>

AutoSettingsFields == << <<1, 8, 5>>, <<1, 8, 1>>, <<2, 8>>, <<10, 8>>, <<8>> >>

SettingsCommands ==
    { HvacSettings(SubSeq(HvacSettingsFields, 1, n)) : n \in 0..Len(HvacSettingsFields) }
    \cup { HumSettings(SubSeq(HumSettingsFields, 1, n)) : n \in 0..Len(HumSettingsFields) }
    \cup { AutoSettings(SubSeq(AutoSettingsFields, 1, n)) : n \in 0..Len(AutoSettingsFields) }

\* the heat, the cool or the auto instance of SensorScript is selected
InitSettings ==
    \E t \in {<<2>>, <<3>>, <<4>>} :
        InitFrom(setup(Installed(SensorScript \o <<HvacTypeMode(t, <<0>>)>>), 0))

NextSettings == EngineCommand(SettingsCommands)

SpecSettings == InitSettings /\ [][NextSettings]_vars

\* ------------------------------------------- the unit on its schedule
SCEDULE_TIME_UPDATE_MSEC == 40000

SetScheduleEntry(args) == [kind |-> "SE", args |-> args]

getScheduleEntry(ee, which) == ee.SCHEDULE_TEMPERATURE_ENTRIES[which + 1]

\* int diff = now - lastScheduleUpdate; diff > SCEDULE_TIME_UPDATE_MSEC: the
\* difference is cut to the 16 bits of an int and widened to an unsigned
\* long to compare, which makes a negative one larger than any limit
ScheduleIsDue(s, t) ==
    LET diff == ToInt16(Sub32(t, s.lastScheduleUpdate))
    IN  diff < 0 \/ diff > SCEDULE_TIME_UPDATE_MSEC

ScheduleMatches(se, clock) ==
    /\ (se.DaysOfWeek \div Pow2(clock.weekday)) % 2 = 1
    /\ clock.hours = se.TimeOfDayHour
    /\ clock.minutes = se.TimeOfDayMinute

\* the entries from which on, in order
RECURSIVE ScheduleFrom(_, _)
ScheduleFrom(s, which) ==
    IF which >= NUM_SCHEDULE_TEMPERATURE_ENTRIES THEN s
    ELSE The({ ScheduleFrom(IF ScheduleMatches(se, s.rtc)
                            THEN setTemperatureCx10(s, se.degreesCx5 * 2, se.AutoMode = 1)
                            ELSE s,
                            which + 1)
             : se \in {getScheduleEntry(s.EEPROM, which)} })

\* loop(): the schedule block, with the clock reading what it reads
ScheduleCheck(s, t, clock) ==
    IF ScheduleIsDue(s, t)
    THEN ScheduleFrom([s EXCEPT !.lastScheduleUpdate = t, !.rtc = clock], 0)
    ELSE s

\* A unit with a map instance and the instances of SensorScript, and three
\* schedule entries: 0 sets 20.6 C at 6:30 from Monday to Friday, 1 sets
\* 18.0 C at 22:00 every day for AUTO only, 2 sets 17.1 C at 22:00 on
\* Saturday and Sunday.
ScheduleScript ==
    <<HvacTypeCount(<<1>>, <<1>>)>> \o SensorScript
    \o << SetScheduleEntry(<< <<0>>, <<2, 0, 6>>, <<6>>, <<3, 0>>, <<3, 14>> >>),
          SetScheduleEntry(<< <<1>>, <<1, 8, 0>>, <<2, 2>>, <<0>>, <<7, 15>>, <<1>> >>),
          SetScheduleEntry(<< <<2>>, <<1, 7, 1>>, <<2, 2>>, <<0>>, <<4, 1>> >>) >>

\* what the clock may read at a check: Sunday and Monday, 0:00, 6:30, 6:31,
\* 22:00
ClockReadings ==
    { [hours |-> h[1], minutes |-> h[2], weekday |-> d]
      : h \in {<<0, 0>>, <<6, 30>>, <<6, 31>>, <<22, 0>>}, d \in {0, 1} }

\* the passes of loop() made while the clock moves on by one step: the
\* schedule is checked, then the rest of the pass is made
ScheduleElapse ==
    /\ millis < MaxSensorTicks * SensorTickMsec
    /\ millis' = millis + SensorTickMsec
    /\ now' = millis'
    /\ pc' = "elapse"
    /\ reportbuf' = NoCommand
    /\ \E clock \in ClockReadings :
          \E next \in {LoopPass(ScheduleCheck([Mem EXCEPT !.millis = millis + SensorTickMsec],
                                              millis + SensorTickMsec, clock),
                                millis + SensorTickMsec, <<>>)} : Store(next)
    /\ UNCHANGED <<steps, previousInputRegister, cmdbuf>>

\* any instance of the five types is selected
InitSchedule ==
    \E t \in {<<0>>, <<1>>, <<2>>, <<3>>, <<4>>} :
        InitFrom(setup(Installed(ScheduleScript \o <<HvacTypeMode(t, <<0>>)>>), 0))

NextSchedule == ScheduleElapse

SpecSchedule == InitSchedule /\ [][NextSchedule]_vars

\* ------------------------------------- the unit as its schedule is edited
\* SE 0 with none, one, two and three of the values 206 6 30 and without the
\* days, SE 0 with 215 6 31 7F, and the same for the entries 16 and 256
EntryFields == << <<2, 0, 6>>, <<6>>, <<3, 0>> >>

EntryCommands ==
    { SetScheduleEntry(<< <<0>> >> \o SubSeq(EntryFields, 1, n)) : n \in 0..Len(EntryFields) }
    \cup { SetScheduleEntry(<< which, <<2, 1, 5>>, <<6>>, <<3, 1>>, <<7, 15>> >>)
           : which \in { <<0>>, <<1, 6>>, <<2, 5, 6>> } }

\* the heat or the auto instance of ScheduleScript is selected
InitEntries ==
    \E t \in {<<2>>, <<4>>} :
        InitFrom(setup(Installed(ScheduleScript \o <<HvacTypeMode(t, <<0>>)>>), 0))

NextEntries == EngineCommand(EntryCommands) \/ ScheduleElapse

SpecEntries == InitEntries /\ [][NextEntries]_vars

\* ------------------------------------------- the unit on a shared channel
\* The texts a packet may carry: the settings of the sketch, the commands of
\* the mode engine, the settings of the modes, and a thermometer's report.
GateTexts ==
    { Compressor(<<2, 0>>, <<6, 0>>),
      HeatSafety("C", << <<4, 0, 0>> >>),
      SetScheduleEntry(<< <<0>>, <<2, 1, 5>>, <<6>>, <<3, 1>>, <<7, 15>> >>),
      HvacTypeCount(<<2>>, <<2>>),
      HvacTypeMode(<<1>>, <<0>>), HvacTypeMode(<<3>>, <<0>>),
      HvacCommit, HvacName(<<88>>), HvacFan(TRUE),
      HvacSettings(<< <<1, 9, 0>> >>),
      HumSettings(<< <<4, 8, 0>> >>),
      AutoSettings(<< <<1, 8, 5>> >>),
      HvacMap(<<4>>, << <<2, 1>> >>),
      Report(Reading(FALSE, <<1, 9>>, <<0>>)) }

\* node 8 sends each of them to another node, and some to this node
GatePackets ==
    { [cmd |-> text, senderid |-> 8, toMe |-> FALSE] : text \in GateTexts }
    \cup { [cmd |-> text, senderid |-> 8, toMe |-> TRUE]
           : text \in { HvacTypeMode(<<3>>, <<0>>), HvacFan(TRUE),
                        HvacSettings(<< <<1, 9, 0>> >>), AutoSettings(<< <<1, 8, 5>> >>) } }

\* a pass of loop() in which a packet has arrived on the radio, for the unit
\* seen packet by packet
GateHears(packets) ==
    \E packet \in packets :
        /\ steps < MaxSteps
        /\ steps' = steps + 1
        /\ reportbuf' = packet
        /\ pc' = "hears"
        /\ \E next \in {LoopPass(Mem, millis, <<packet>>)} : Store(next)
        /\ UNCHANGED <<millis, now, previousInputRegister, cmdbuf>>

\* the map, the heat or the auto instance of ScheduleScript is selected
InitGate ==
    \E t \in {<<0>>, <<1>>, <<2>>, <<3>>, <<4>>} :
        InitFrom(setup(Installed(ScheduleScript \o <<HvacTypeMode(t, <<0>>)>>), 0))

NextGate == GateHears(GatePackets)

SpecGate == InitGate /\ [][NextGate]_vars

\* ------------------------------------------- the unit polling its inputs
\* the signal is in the mask
HasBit(mask, i) == (mask \div Bit(i)) % 2 = 1

\* a signal as the symmetric reading would have it: on when seen, off when not
PollSymmetric(s, t, pins) ==
    [s EXCEPT !.LastChecked = t, !.InputRegister = pins]

\* loop(): the pins are read into TempInputRegister, and InputRegister
\* follows: a signal seen active is set at once, one not seen is cleared
\* when neither it nor a pause of the polling was seen for 100 ms
PollInputs(s, t, pins) ==
    LET restarted == IF Sub32(t, s.LastChecked) >= INPUT_AC_ACTIVE_MIN_MSEC \div 4
                     THEN t ELSE s.RestartedChecking
        keeps(i) == IF HasBit(pins, i) THEN TRUE
                    ELSE IF /\ Sub32(t, s.LastSeenActive[i]) >= INPUT_AC_ACTIVE_MIN_MSEC
                            /\ Sub32(t, restarted) >= INPUT_AC_ACTIVE_MIN_MSEC
                         THEN FALSE
                    ELSE HasBit(s.InputRegister, i)
        Sum(i) == IF keeps(i) THEN Bit(i) ELSE 0
    IN  [s EXCEPT !.RestartedChecking = restarted,
                  !.LastSeenActive = [i \in 0..(NUMBER_OF_SIGNALS - 1) |->
                                         IF HasBit(pins, i) THEN t ELSE @[i]],
                  !.LastChecked = t,
                  !.InputRegister = Sum(0) + Sum(1) + Sum(2) + Sum(3) + Sum(4) + Sum(5)
                                    + Sum(6) + Sum(7)]

\* One pass of loop() at time t with the pins as given and nothing received
PollPass(s, t, pins) ==
    HvacLoopOf(
        The({ InputsRead(polled, s.InputRegister, polled.InputRegister)
            : polled \in {PollInputs(HeatSafetyCheck(HeatSafetyHoldExpiry(
                                         CompressorHoldExpiry(s, t), t)), t, pins)} }),
        t)

\* the passes come 20 or 30 ms apart, for this long
PollGaps == {20, 30}
MaxPollMsec == 300

\* the thermostat wires as the pins show them in one pass: none, W, W and X2
PinValues == {0, 8, 40}

Poll ==
    /\ millis < MaxPollMsec
    /\ \E gap \in PollGaps, pins \in PinValues :
          /\ millis' = millis + gap
          /\ \E next \in {PollPass([Mem EXCEPT !.millis = millis + gap], millis + gap, pins)} :
                Store(next)
    /\ now' = millis'
    /\ pc' = "poll"
    /\ previousInputRegister' = InputRegister
    /\ UNCHANGED <<steps, cmdbuf, reportbuf>>

\* the unit passes its inputs through
InitPoll == InitFrom(setup(Installed(ScheduleScript \o <<HvacTypeMode(<<0>>, <<0>>)>>), 0))

NextPoll == Poll

SpecPoll == InitPoll /\ [][NextPoll]_vars

\* ------------------------------------------- the unit on its serial port
\* a line of characters that is no command
UnknownText == [kind |-> "unknown"]

\* the characters that arrive: carriage return, line feed and the letter x
SerialBytes == {13, 10, 120}

\* the serial block as it would be if only the end of a line were looked for
SerialReadToEndOfLine(s, ch) ==
    IF ch \in {10, 13}
    THEN [routeCommand(s, UnknownText, 255, TRUE) EXCEPT
              !.charsInBuf = 0,
              !.serialLog = << [ev |-> "read", ch |-> ch],
                               [ev |-> "route", len |-> s.charsInBuf],
                               [ev |-> "ready>"] >>]
    ELSE [s EXCEPT !.charsInBuf = @ + 1, !.serialLog = << [ev |-> "read", ch |-> ch] >>]

\* loop(): one character is read from the serial port; it is put into the
\* buffer unless it ends the line, and the buffer is routed when the line
\* ends or the buffer is full
SerialRead(s, ch) ==
    LET isRet == ch \in {10, 13}
        held == IF isRet THEN s.charsInBuf ELSE s.charsInBuf + 1
    IN  IF isRet \/ held >= CMD_BUFLEN - 1
        THEN [routeCommand(s, UnknownText, 255, TRUE) EXCEPT
                  !.charsInBuf = 0,
                  !.serialLog = << [ev |-> "read", ch |-> ch],
                                   [ev |-> "route", len |-> held],
                                   [ev |-> "ready>"] >>]
        ELSE [s EXCEPT !.charsInBuf = held, !.serialLog = << [ev |-> "read", ch |-> ch] >>]

SerialByte(bytes) ==
    \E ch \in bytes :
        /\ pc' = "byte"
        /\ \E next \in {SerialRead(Mem, ch)} : Store(next)
        /\ UNCHANGED <<millis, steps, now, previousInputRegister, cmdbuf, reportbuf>>

InitSerial == InitFrom(setup(Installed(ScheduleScript \o <<HvacTypeMode(<<2>>, <<0>>)>>), 0))

NextSerial == SerialByte(SerialBytes)

SpecSerial == InitSerial /\ [][NextSerial]_vars

\* ------------------------------------------- the unit through a cycle
\* The heat, the cool or the auto instance of the unit above, with its
\* second stage due 300 s and its third 450 s after the first, so that a
\* silent thermometer is timed out after more than 900 s:
\*   heat  W, W+X2, W+X2+X3;   cool and auto  X2, X2+X1, X2+X1+X3.
CycleSettings(type) ==
    IF type = <<2>>
    THEN HvacSettings(<< <<2, 0, 0>>, <<1, 9, 4>>, <<3, 0, 0>>, <<1, 0>>, <<4>>,
                         <<8>>, <<2, 8>>, <<10, 8>>, <<3, 0, 0>>, <<4, 5, 0>> >>)
    ELSE HvacSettings(<< IF type = <<3>> THEN <<1, 9, 4>> ELSE <<2, 0, 0>>,
                         IF type = <<3>> THEN <<2, 0, 0>> ELSE <<2, 1, 0>>,
                         <<3, 0, 0>>, <<1, 0>>, <<4>>,
                         <<2, 0>>, <<6, 0>>, <<14, 0>>, <<3, 0, 0>>, <<4, 5, 0>> >>)

\* the clock of this unit is followed in steps of 300 s for 1200 s, and the
\* operator sends two commands
MaxCycleTicks == 4
MaxCycleCommands == 2

\* thermometer 8 reports 19.0 or 21.0 C
CyclePackets ==
    { SensorPacket(8, Reading(FALSE, t[1], t[2]), Absent) :
          t \in {<< <<1, 9>>, <<0>> >>, << <<2, 1>>, <<0>> >>} }

\* the operator turns the fan on and off and sets the target to 20.0 C
CycleCommands == {HvacFan(TRUE), HvacFan(FALSE), HvacSettings(<< <<2, 0, 0>> >>)}

\* what the clock may read at a check: 0:00 on a Sunday, when no entry of the
\* schedule matches, and 6:30 on a Monday, when entry 0 does
CycleClocks ==
    { [hours |-> 0, minutes |-> 0, weekday |-> 0],
      [hours |-> 6, minutes |-> 30, weekday |-> 1] }

\* the passes of loop() made while the clock moves on by one step: the
\* schedule is checked, then the rest of the pass is made
CycleElapse ==
    /\ millis < MaxCycleTicks * SensorTickMsec
    /\ millis' = millis + SensorTickMsec
    /\ now' = millis'
    /\ pc' = "elapse"
    /\ reportbuf' = NoCommand
    /\ \E clock \in CycleClocks :
          \E next \in {LoopPass(ScheduleCheck([Mem EXCEPT !.millis = millis + SensorTickMsec],
                                              millis + SensorTickMsec, clock),
                                millis + SensorTickMsec, <<>>)} : Store(next)
    /\ UNCHANGED <<steps, previousInputRegister, cmdbuf>>

\* a command arrives on the serial port and is routed
CycleCommand(cmds) ==
    \E cmd \in cmds :
        /\ cmdbuf' = cmd
        /\ steps < MaxCycleCommands
        /\ steps' = steps + 1
        /\ pc' = "command"
        /\ \E next \in {routeCommand(Mem, cmd, 255, TRUE)} : Store(next)
        /\ UNCHANGED <<millis, now, previousInputRegister, reportbuf>>

\* the unit powers up in its pass-through or in its map instance, or in one
\* of the three above
InitCycle ==
    \E type \in {<<0>>, <<1>>, <<2>>, <<3>>, <<4>>} :
        InitFrom(setup(Installed(ScheduleScript \o
                     (IF type \in {<<0>>, <<1>>}
                      THEN <<HvacTypeMode(type, <<0>>)>>
                      ELSE <<HvacTypeMode(type, <<0>>), CycleSettings(type), HvacCommit>>)), 0))

NextCycle ==
    \/ CycleElapse
    \/ SensorHears(CyclePackets)
    \/ CycleCommand(CycleCommands)

SpecCycle == InitCycle /\ [][NextCycle]_vars

\* ------------------------------------------- properties of SpecSensor
\* the pass just made heard a packet from a thermometer of the sensor mask
HeardConfigured ==
    /\ pc' = "hears"
    /\ SensorIsHonoured(sensorSettings.SensorMask, reportbuf'.senderid)

\* the temperature of the packet just heard, in tenths of a degree
HeardCx10 == parseForColon(reportbuf'.cmd.T)

\* the report just heard was taken: it is now the last one heard
ReportTaken ==
    /\ lastHeardSensorId' = reportbuf'.senderid
    /\ lastHeardFromSensor' = millis
    /\ previousActual' = U16(HeardCx10)

\* the report just heard was ignored: nothing the mode keeps has changed and
\* no other output is requested
ReportIgnored ==
    UNCHANGED <<lastHeardSensorId, lastHeardFromSensor, previousActual, fancoilState,
                timeEnteredStage1, heatState, LastOutputWrite>>

\* C21 (as the code has it): a report from a thermometer of the sensor mask
\* is ignored exactly when the report last taken came from a strictly
\* lower-numbered thermometer less than 15 minutes earlier; every other
\* report from a thermometer of the mask is taken.
C21_LowerNumberedFirst ==
    [][ HeardConfigured =>
          IF /\ lastHeardSensorId > 0
             /\ lastHeardSensorId < reportbuf'.senderid
             /\ millis - lastHeardFromSensor < 15 * 60 * 1000
          THEN ReportIgnored
          ELSE ReportTaken ]_vars

\* thermometer 9 has just been ignored, 300 s after thermometer 8 was heard
C21_Witness ==
    /\ pc = "hears"
    /\ reportbuf.senderid = 9
    /\ lastHeardSensorId = 8
    /\ lastHeardFromSensor = 0
    /\ millis = SensorTickMsec

\* C21 (as stated): a report from a thermometer of the mask is ignored while a
\* strictly higher-numbered thermometer has been heard within the last 15
\* minutes (thermometer 8 at 100 s after thermometer 9 at 0 s).
C21_HigherNumberedFirst ==
    [][ ( /\ HeardConfigured
          /\ lastHeardSensorId > reportbuf'.senderid
          /\ millis - lastHeardFromSensor < 15 * 60 * 1000 )
        => lastHeardSensorId' = lastHeardSensorId ]_vars

\* the pass just made took a report while a stage of the type was on
TakenWhileOn(type) ==
    /\ HeardConfigured
    /\ ReportTaken
    /\ MyTypeNumber = type
    /\ fancoilState # STATE_OFF

\* the pass just made took a report while the stages of the type were OFF
TakenWhileOff(type) ==
    /\ HeardConfigured
    /\ ReportTaken
    /\ MyTypeNumber = type
    /\ fancoilState = STATE_OFF

\* C23 (as the code has it): in Heat with a stage on, a report that is taken
\* returns the stage to OFF exactly when its temperature is at or above the
\* target; below the target the stage stays on.
C23_HeatStopsAtTarget ==
    [][ TakenWhileOn(HVAC_HEAT) =>
          ( fancoilState' = STATE_OFF
            <=> HeardCx10 >= sensorSettings.TemperatureTargetDegreesCx10 ) ]_vars

\* heating has just been stopped by a report of the target temperature: the
\* write before which W was on asks for the always-on output only
C23_Witness ==
    /\ pc = "hears"
    /\ MyTypeNumber = HVAC_HEAT
    /\ fancoilState = STATE_OFF
    /\ previousActual = sensorSettings.TemperatureTargetDegreesCx10
    /\ spi # <<>>
    /\ And8(spi[Len(spi)].before, sensorSettings.OutputStage1) # 0
    /\ spi[Len(spi)].requested = sensorSettings.AlwaysOnMask

\* C23 (as stated): in Heat with a stage on, a report that is taken with a
\* temperature below the target returns the stage to OFF.
C23_HeatStopsBelowTarget ==
    [][ ( /\ TakenWhileOn(HVAC_HEAT)
          /\ HeardCx10 < sensorSettings.TemperatureTargetDegreesCx10 )
        => fancoilState' = STATE_OFF ]_vars

\* C24 (as the code has it): a report that is taken in Cool starts Stage 1
\* from OFF exactly when its temperature is at or above the activate setting
\* and stops the stages exactly when it is at or below the target; in Heat
\* it starts Stage 1 exactly when it is at or below the activate setting and
\* stops the stages exactly when it is at or above the target.  A report
\* that does not start leaves the stage OFF, one that does not stop leaves a
\* stage on.
C24_Thresholds ==
    [][ /\ TakenWhileOff(HVAC_COOL) =>
              IF HeardCx10 >= sensorSettings.TemperatureActivateDegreesCx10
              THEN fancoilState' = STATE_STAGE1 ELSE fancoilState' = STATE_OFF
        /\ TakenWhileOn(HVAC_COOL) =>
              ( fancoilState' = STATE_OFF
                <=> HeardCx10 <= sensorSettings.TemperatureTargetDegreesCx10 )
        /\ TakenWhileOff(HVAC_HEAT) =>
              IF HeardCx10 <= sensorSettings.TemperatureActivateDegreesCx10
              THEN fancoilState' = STATE_STAGE1 ELSE fancoilState' = STATE_OFF
        /\ TakenWhileOn(HVAC_HEAT) =>
              ( fancoilState' = STATE_OFF
                <=> HeardCx10 >= sensorSettings.TemperatureTargetDegreesCx10 ) ]_vars

\* cooling has just been started by a report of the activate temperature
\* itself: the write before which no stage output was on asks for Stage 1
C24_Witness ==
    /\ pc = "hears"
    /\ MyTypeNumber = HVAC_COOL
    /\ fancoilState = STATE_STAGE1
    /\ previousActual = sensorSettings.TemperatureActivateDegreesCx10
    /\ timeEnteredStage1 = millis
    /\ spi # <<>>
    /\ And8(spi[Len(spi)].before, sensorSettings.OutputStage1) = 0
    /\ spi[Len(spi)].requested = sensorSettings.OutputStage1

\* C24 (as stated): a report that is taken in Cool starts Stage 1 from OFF
\* when its temperature exceeds the activate setting and leaves the stage
\* OFF otherwise; with a stage on it stops cooling when its temperature is
\* below the target and keeps cooling otherwise.
C24_CoolBeyondSettings ==
    [][ /\ TakenWhileOff(HVAC_COOL) =>
              IF HeardCx10 > sensorSettings.TemperatureActivateDegreesCx10
              THEN fancoilState' = STATE_STAGE1 ELSE fancoilState' = STATE_OFF
        /\ TakenWhileOn(HVAC_COOL) =>
              ( fancoilState' = STATE_OFF
                <=> HeardCx10 < sensorSettings.TemperatureTargetDegreesCx10 ) ]_vars

\* ------------------------------------------- properties of SpecHumid
\* a stage of the mode, cooling or heating, is on
StageOn == fancoilState # STATE_OFF \/ heatState # HEAT_OFF

\* every output bit that a stage of the mode asks for
StageBits ==
    LET all == Or8(Or8(sensorSettings.OutputStage1, sensorSettings.OutputStage2),
                   sensorSettings.OutputStage3)
    IN  IF MyTypeNumber = HVAC_AUTO
        THEN Or8(all, Or8(Or8(autoSettings.HeatMaskStage1, autoSettings.HeatMaskStage2),
                          autoSettings.HeatMaskStage3))
        ELSE all

\* the pass just made heard nothing, and the report last taken was then more
\* than twice the seconds to the third stage old
SilentPass ==
    /\ pc' \in {"elapse", "idle"}
    /\ millis' - lastHeardFromSensor > 2 * sensorSettings.SecondsToThirdStage * 1000

\* C22: a pass of loop() that finds a stage on and the last report taken
\* more than 2 x SecondsToThirdStage seconds old turns the stage it finds on
\* OFF (in AUTO the heating stage if that is on, else the cooling stage) and
\* requests the always-on outputs only, none of them a stage output; a
\* stage that is OFF leaves OFF only in a pass that takes a report.
C22_SensorTimeout ==
    [][ /\ (SilentPass /\ StageOn) =>
              /\ IF heatState # HEAT_OFF THEN heatState' = HEAT_OFF
                 ELSE fancoilState' = STATE_OFF
              /\ LastOutputWrite' = sensorSettings.AlwaysOnMask
              /\ And8(LastOutputWrite', StageBits) = 0
              /\ previousActual' = 0
        /\ ( \/ fancoilState = STATE_OFF /\ fancoilState' # STATE_OFF
             \/ heatState = HEAT_OFF /\ heatState' # HEAT_OFF )
           => (HeardConfigured /\ ReportTaken) ]_vars

\* the cooling stage has just been turned OFF by the time-out, 900 s after
\* the only report, and the always-on output is all that is requested
C22_Witness ==
    /\ pc = "elapse"
    /\ millis = 3 * SensorTickMsec
    /\ lastHeardSensorId = 8
    /\ lastHeardFromSensor = 0
    /\ fancoilState = STATE_OFF
    /\ previousActual = 0
    /\ spi # <<>>
    /\ spi[Len(spi)].requested = sensorSettings.AlwaysOnMask
    /\ And8(spi[Len(spi)].before, StageBits) # 0

\* C25: in AUTO the cooling stages and the heating stages are never on at
\* the same time.
C25_AutoMutualExclusion ==
    MyTypeNumber = HVAC_AUTO => (fancoilState = STATE_OFF \/ heatState = HEAT_OFF)

\* C25, the consequence: no pass of loop() that hears nothing requests a
\* heating stage mask while the cooling stages are on.
C25_NoHeatMaskWhileCooling ==
    [][ ( /\ MyTypeNumber = HVAC_AUTO
          /\ pc' \in {"elapse", "idle"}
          /\ fancoilState # STATE_OFF
          /\ LastOutputWrite' # LastOutputWrite )
        => LastOutputWrite' \notin {autoSettings.HeatMaskStage2,
                                    autoSettings.HeatMaskStage3} ]_vars

\* the humidity of the packet just heard, in tenths of a percent (-1: none)
HeardRHx10 == parseForColon(reportbuf'.cmd.R)

\* the dehumidify outputs are part of what the mode requests
OverlayOn(requested) == And8(requested, coolSettings.MaskDehumidifyBitsOn) # 0

\* C26: in Cool, once a report with a humidity at or below the setting - 1.5 %
\* has left the dehumidify outputs off, a report turns them on only if its
\* humidity exceeds the setting + 1.5 %.
C26_DehumidifyHysteresis ==
    [][ ( /\ MyTypeNumber = HVAC_COOL
          /\ pc = "hears"
          /\ reportbuf.cmd.R.present
          /\ parseForColon(reportbuf.cmd.R)
                 <= coolSettings.HumiditySettingX10 - DEHUMIDIFY_HYSTERESIS
          /\ ~OverlayOn(LastOutputWrite)
          /\ HeardConfigured
          /\ ReportTaken
          /\ HeardRHx10 <= coolSettings.HumiditySettingX10 + DEHUMIDIFY_HYSTERESIS )
        => ~OverlayOn(LastOutputWrite') ]_vars

\* the dehumidify state of the active type
DehumidifyNow ==
    IF MyTypeNumber = HVAC_AUTO THEN autoDehumidifyState ELSE coolDehumidifyState

\* the pass just made took a report that calls for dehumidifying: cooling
\* is the business of the mode and the humidity is above the setting + 1.5 %,
\* or above the setting - 1.5 % while dehumidifying
CallsForDehumidify ==
    /\ HeardConfigured
    /\ ReportTaken
    /\ MyTypeNumber \in {HVAC_COOL, HVAC_AUTO}
    /\ heatState' = HEAT_OFF
    /\ coolSettings.HumiditySettingX10 # 65535
    /\ HeardRHx10 > coolSettings.HumiditySettingX10
                    + (IF DehumidifyNow = DEHUMDIFY_OFF THEN DEHUMIDIFY_HYSTERESIS
                       ELSE 0 - DEHUMIDIFY_HYSTERESIS)

\* What the report handler requested in the pass just made: its write is the
\* first of the pass, or the second when InputsToHvacFlag had the pass begin
\* by writing the outputs again; hvac->loop may write after it.
ReportRequest == spi'[IF InputsToHvacFlag THEN 2 ELSE 1].requested

\* what the cooling stages request without the dehumidify bits
CoolRequests ==
    {sensorSettings.AlwaysOnMask, sensorSettings.OutputStage1,
     sensorSettings.OutputStage2, sensorSettings.OutputStage3}

C27_WitnessCool ==
    /\ pc = "hears"
    /\ MyTypeNumber = HVAC_COOL
    /\ parseForColon(reportbuf.cmd.R) = 570
    /\ previousActual = 190
    /\ LastOutputWrite = sensorSettings.AlwaysOnMask
    /\ coolDehumidifyState = DEHUMDIFY_OFF

\* ------------------------------------------ properties of SpecSettings
\* the settings in the order the commands take them
SensorSettingsOrder ==
    << "TemperatureTargetDegreesCx10", "TemperatureActivateDegreesCx10", "SensorMask",
       "MaskFanOnly", "AlwaysOnMask", "OutputStage1", "OutputStage2", "OutputStage3",
       "SecondsToSecondStage", "SecondsToThirdStage" >>

CoolSettingsOrder == << "HumiditySettingX10", "MaskDehumidifyBitsOn", "MaskDehumidifyBitsOff" >>

AutoSettingsOrder ==
    << "TemperatureTargetHeatDegreesCx10", "TemperatureActivateHeatDegreesCx10",
       "HeatMaskStage1", "HeatMaskStage2", "HeatMaskStage3" >>

\* this step is a settings command of the kind, with Given fields
SettingsStep(kind) == pc' = "command" /\ cmdbuf'.kind = kind
Given == Len(cmdbuf'.args)

\* the settings from the k-th on are as they were
KeptFrom(old, new, order, k) == \A i \in k..Len(order) : new[order[i]] = old[order[i]]

\* C28: the settings whose fields are omitted from HVAC_SETTINGS, HUM_SETTINGS
\* or AUTO_SETTINGS keep their values, with these exceptions: HVAC_SETTINGS
\* without activate temperature sets it 0.6 C from the new target, and
\* without any field sets the target to 0; HUM_SETTINGS without any field
\* sets the humidity setting to 65535; AUTO_SETTINGS with the target only
\* sets the heat activate temperature 0.6 C below it, and with a first
\* stage mask sets the omitted second and third stage masks to that mask.
C28_PartialUpdate ==
    [][ /\ SettingsStep("HVAC_SETTINGS") =>
              /\ KeptFrom(sensorSettings, sensorSettings', SensorSettingsOrder,
                          IF Given < 2 THEN 3 ELSE Given + 1)
              /\ Given < 2 =>
                    sensorSettings'.TemperatureActivateDegreesCx10 =
                        ActivateTemperatureFromTarget(
                            MyTypeNumber, sensorSettings'.TemperatureTargetDegreesCx10)
              /\ Given = 0 => sensorSettings'.TemperatureTargetDegreesCx10 = 0
        /\ SettingsStep("HUM_SETTINGS") =>
              IF MyTypeNumber \in {HVAC_COOL, HVAC_AUTO}
              THEN /\ KeptFrom(coolSettings, coolSettings', CoolSettingsOrder,
                               IF Given < 1 THEN 2 ELSE Given + 1)
                   /\ Given = 0 => coolSettings'.HumiditySettingX10 = 65535
              ELSE coolSettings' = coolSettings
        /\ SettingsStep("AUTO_SETTINGS") =>
              IF MyTypeNumber = HVAC_AUTO /\ Given > 0
              THEN /\ Given = 1 =>
                        autoSettings'.TemperatureActivateHeatDegreesCx10 =
                            ToInt16(autoSettings'.TemperatureTargetHeatDegreesCx10 - 6)
                   /\ Given < 3 => KeptFrom(autoSettings, autoSettings', AutoSettingsOrder, 3)
                   /\ Given \in {3, 4} =>
                        autoSettings'.HeatMaskStage3 = autoSettings'.HeatMaskStage1
                   /\ Given = 3 =>
                        autoSettings'.HeatMaskStage2 = autoSettings'.HeatMaskStage1
              ELSE autoSettings' = autoSettings ]_vars

\* the heat instance after HVAC_SETTINGS 215 223 200: the three fields are
\* taken and the masks and times of the instance are as before
C28_Witness ==
    /\ pc = "command"
    /\ cmdbuf = HvacSettings(SubSeq(HvacSettingsFields, 1, 3))
    /\ MyTypeNumber = HVAC_HEAT
    /\ sensorSettings.TemperatureTargetDegreesCx10 = 215
    /\ sensorSettings.TemperatureActivateDegreesCx10 = 223
    /\ sensorSettings.SensorMask = [lo |-> 512, hi |-> 0]
    /\ sensorSettings.OutputStage3 = 168
    /\ sensorSettings.SecondsToThirdStage = 300

\* C28 as the specification has it: every setting whose field is omitted
\* keeps its value
C28_OmittedFieldsKept ==
    [][ /\ SettingsStep("HVAC_SETTINGS") =>
              KeptFrom(sensorSettings, sensorSettings', SensorSettingsOrder, Given + 1)
        /\ SettingsStep("HUM_SETTINGS") =>
              KeptFrom(coolSettings, coolSettings', CoolSettingsOrder, Given + 1)
        /\ SettingsStep("AUTO_SETTINGS") =>
              KeptFrom(autoSettings, autoSettings', AutoSettingsOrder, Given + 1) ]_vars

\* C29: HVAC_SETTINGS with the target alone sets the target, puts the activate
\* temperature 0.6 C below it in Heat and 0.6 C above it in Cool and Auto,
\* and leaves the sensor mask, the fan mask, the always-on mask, the three
\* stage masks and the two stage times as they were.
C29_TargetOnly ==
    [][ SettingsStep("HVAC_SETTINGS") /\ Given = 1 =>
          /\ sensorSettings'.TemperatureTargetDegreesCx10 = aDecimalToInt(cmdbuf'.args[1])
          /\ sensorSettings'.TemperatureActivateDegreesCx10 =
                 IF MyTypeNumber = HVAC_HEAT
                 THEN sensorSettings'.TemperatureTargetDegreesCx10 - 6
                 ELSE sensorSettings'.TemperatureTargetDegreesCx10 + 6
          /\ \A f \in {"SensorMask", "MaskFanOnly", "AlwaysOnMask", "OutputStage1",
                        "OutputStage2", "OutputStage3", "SecondsToSecondStage",
                        "SecondsToThirdStage"} :
                 sensorSettings'[f] = sensorSettings[f] ]_vars

\* the cool instance after HVAC_SETTINGS 215: it stops at 21.5 C and starts
\* at 22.1 C, on the outputs and with the times it had
C29_Witness ==
    /\ pc = "command"
    /\ cmdbuf = HvacSettings(SubSeq(HvacSettingsFields, 1, 1))
    /\ MyTypeNumber = HVAC_COOL
    /\ sensorSettings.TemperatureTargetDegreesCx10 = 215
    /\ sensorSettings.TemperatureActivateDegreesCx10 = 221
    /\ sensorSettings.OutputStage2 = 96
    /\ sensorSettings.SecondsToSecondStage = 300

\* the same in Heat and in Auto
C29_WitnessHeat ==
    /\ pc = "command"
    /\ cmdbuf = HvacSettings(SubSeq(HvacSettingsFields, 1, 1))
    /\ MyTypeNumber = HVAC_HEAT
    /\ sensorSettings.TemperatureActivateDegreesCx10 = 209
    /\ sensorSettings.OutputStage3 = 168

C29_WitnessAuto ==
    /\ pc = "command"
    /\ cmdbuf = HvacSettings(SubSeq(HvacSettingsFields, 1, 1))
    /\ MyTypeNumber = HVAC_AUTO
    /\ sensorSettings.TemperatureActivateDegreesCx10 = 221
    /\ sensorSettings.OutputStage3 = 96

\* ------------------------------------------ properties of SpecSchedule
\* this pass checked the schedule and found entry which matching the clock
ScheduleChecked == pc' = "elapse" /\ lastScheduleUpdate' = millis'
EntryMatched(which) ==
    ScheduleChecked /\ ScheduleMatches(getScheduleEntry(EEPROM, which), rtc')
NormalEntries ==
    { which \in 0..(NUM_SCHEDULE_TEMPERATURE_ENTRIES - 1) :
        getScheduleEntry(EEPROM, which).AutoMode = 0 }
AutoOnlyEntries == (0..(NUM_SCHEDULE_TEMPERATURE_ENTRIES - 1)) \ NormalEntries
AllSettingsKept == UNCHANGED <<sensorSettings, coolSettings, autoSettings, inputToOutput, ModeName>>

\* C30: a schedule check that finds a normal entry matching the clock (and no
\* entry for AUTO only) makes the entry's temperature the target in HEAT and
\* in COOL and changes no setting in PassThrough, MapInputToOutput and AUTO.
C30_NormalEntries ==
    [][ \A which \in NormalEntries :
          EntryMatched(which) /\ (\A other \in AutoOnlyEntries : ~EntryMatched(other)) =>
             IF MyTypeNumber \in {HVAC_HEAT, HVAC_COOL}
             THEN sensorSettings'.TemperatureTargetDegreesCx10 =
                      2 * getScheduleEntry(EEPROM, which).degreesCx5
             ELSE AllSettingsKept ]_vars

\* the same without AUTO: in HEAT and COOL the target is the entry's
\* temperature, in PassThrough and MapInputToOutput nothing is changed
C30_NormalEntriesOutsideAuto ==
    [][ \A which \in NormalEntries :
          EntryMatched(which) /\ MyTypeNumber # HVAC_AUTO =>
             IF MyTypeNumber \in {HVAC_HEAT, HVAC_COOL}
             THEN sensorSettings'.TemperatureTargetDegreesCx10 =
                      2 * getScheduleEntry(EEPROM, which).degreesCx5
             ELSE AllSettingsKept ]_vars

\* in AUTO the normal entry 0 has moved the target of cooling to 20.6 C
C30_AutoCoolingTargetMoved ==
    /\ pc = "elapse"
    /\ MyTypeNumber = HVAC_AUTO
    /\ rtc = [hours |-> 6, minutes |-> 30, weekday |-> 1]
    /\ lastScheduleUpdate = millis
    /\ sensorSettings.TemperatureTargetDegreesCx10 = 206
    /\ sensorSettings.TemperatureActivateDegreesCx10 = 212

\* C31: a schedule check that finds an entry for AUTO only matching the clock
\* (and no normal entry) makes the entry's temperature the target of heating
\* in AUTO, with the activate temperature 0.6 C below it, and changes no
\* setting in any other type.
C31_AutoOnlyEntries ==
    [][ \A which \in AutoOnlyEntries :
          EntryMatched(which) /\ (\A other \in NormalEntries : ~EntryMatched(other)) =>
             IF MyTypeNumber = HVAC_AUTO
             THEN /\ autoSettings'.TemperatureTargetHeatDegreesCx10 =
                        2 * getScheduleEntry(EEPROM, which).degreesCx5
                  /\ autoSettings'.TemperatureActivateHeatDegreesCx10 =
                        2 * getScheduleEntry(EEPROM, which).degreesCx5 - 6
             ELSE AllSettingsKept ]_vars

\* the same without AUTO: the entry changes no setting in the other types
C31_AutoOnlyEntriesOutsideAuto ==
    [][ \A which \in AutoOnlyEntries :
          /\ EntryMatched(which)
          /\ \A other \in NormalEntries : ~EntryMatched(other)
          /\ MyTypeNumber # HVAC_AUTO
          => AllSettingsKept ]_vars

\* in AUTO the entry 1, which holds 18.0 C, has set the target of heating to
\* 8.0 C: the first digit of the temperature is taken for the separator
C31_HeatTargetLostDigit ==
    /\ pc = "elapse"
    /\ MyTypeNumber = HVAC_AUTO
    /\ rtc = [hours |-> 22, minutes |-> 0, weekday |-> 1]
    /\ lastScheduleUpdate = millis
    /\ getScheduleEntry(EEPROM, 1).degreesCx5 = 90
    /\ autoSettings.TemperatureTargetHeatDegreesCx10 = 80
    /\ autoSettings.TemperatureActivateHeatDegreesCx10 = 74

\* ------------------------------------------- properties of SpecEntries
\* this step is an SE command; the entry number as written, and the number
\* of values that follow it
EntryStep == pc' = "command" /\ cmdbuf'.kind = "SE"
EntryNumber == aDecimalToInt(Field(cmdbuf'.args, 1))
EntryValues == Len(cmdbuf'.args) - 1
EntriesOf(ee) == ee.SCHEDULE_TEMPERATURE_ENTRIES

\* the entry matches the clock at no time of the week: its hour or minute is
\* one the clock never reads, or none of its days is set
MatchesNoTime(se) ==
    \/ se.TimeOfDayHour > 23
    \/ se.TimeOfDayMinute > 59
    \/ \A d \in 0..6 :
          ~ScheduleMatches(se, [hours |-> se.TimeOfDayHour, minutes |-> se.TimeOfDayMinute,
                                weekday |-> d])

\* an SE command for one of the 16 entries clears it when a value is omitted
EntryCleared ==
    EntryStep /\ EntryNumber < NUM_SCHEDULE_TEMPERATURE_ENTRIES /\ EntryValues < 4 =>
        /\ MatchesNoTime(getScheduleEntry(EEPROM', EntryNumber))
        /\ \A which \in 0..(NUM_SCHEDULE_TEMPERATURE_ENTRIES - 1) :
              which # EntryNumber =>
                  getScheduleEntry(EEPROM', which) = getScheduleEntry(EEPROM, which)

\* an entry that matches no time is not found at a check, a check that finds
\* no entry changes no setting, and the entries stay as they are until an SE
\* command is received
ClearedEntryIsSilent ==
    /\ \A which \in 0..(NUM_SCHEDULE_TEMPERATURE_ENTRIES - 1) :
          ScheduleChecked /\ MatchesNoTime(getScheduleEntry(EEPROM, which)) =>
              ~EntryMatched(which)
    /\ ~EntryStep => EntriesOf(EEPROM') = EntriesOf(EEPROM)
    /\ ScheduleChecked /\ (\A which \in 0..(NUM_SCHEDULE_TEMPERATURE_ENTRIES - 1) :
                              ~EntryMatched(which)) =>
          AllSettingsKept

\* C32: an SE command for an entry 0..15 with a value omitted clears the
\* entry, which then matches no time and sets no temperature until it is
\* written again; an SE command for an entry numbered 16 or more changes no
\* entry.
C32_EntryClearing ==
    [][ /\ EntryCleared
        /\ ClearedEntryIsSilent
        /\ EntryStep /\ EntryNumber >= NUM_SCHEDULE_TEMPERATURE_ENTRIES =>
              EntriesOf(EEPROM') = EntriesOf(EEPROM) ]_vars

\* the same for the entry numbers below 256
C32_EntryClearingBelow256 ==
    [][ /\ EntryCleared
        /\ ClearedEntryIsSilent
        /\ EntryStep /\ EntryNumber >= NUM_SCHEDULE_TEMPERATURE_ENTRIES /\ EntryNumber < 256 =>
              EntriesOf(EEPROM') = EntriesOf(EEPROM) ]_vars

\* SE 256 215 6 31 7F has written entry 0
C32_Entry256WritesEntry0 ==
    /\ pc = "command"
    /\ cmdbuf = SetScheduleEntry(<< <<2, 5, 6>>, <<2, 1, 5>>, <<6>>, <<3, 1>>, <<7, 15>> >>)
    /\ getScheduleEntry(EEPROM, 0) =
           [degreesCx5 |-> 107, TimeOfDayHour |-> 6, TimeOfDayMinute |-> 31,
            DaysOfWeek |-> 127, AutoMode |-> 0]

\* entry 0 was cleared by SE 0 206 6 30, and a check at 6:30 on a Monday has
\* left the target of the heat instance at 20.0 C
C32_ClearedEntryPassed ==
    /\ pc = "elapse"
    /\ MyTypeNumber = HVAC_HEAT
    /\ rtc = [hours |-> 6, minutes |-> 30, weekday |-> 1]
    /\ lastScheduleUpdate = millis
    /\ getScheduleEntry(EEPROM, 0) =
           [degreesCx5 |-> 103, TimeOfDayHour |-> 6, TimeOfDayMinute |-> 30,
            DaysOfWeek |-> 0, AutoMode |-> 0]
    /\ sensorSettings.TemperatureTargetDegreesCx10 = 200

\* --------------------------------------------- properties of SpecGate
\* this pass heard a packet that was sent to another node
HeardForAnother == pc' = "hears" /\ ~reportbuf'.toMe

C33_WitnessReport ==
    /\ pc = "hears"
    /\ ~reportbuf.toMe
    /\ reportbuf.cmd.kind = "REPORT"
    /\ MyTypeNumber = HVAC_HEAT
    /\ lastHeardSensorId = 8
    /\ fancoilState = STATE_STAGE1

\* C36: a packet sent to another node changes none of the working settings
\* of the active mode (the settings of the sensor-driven modes, of cooling
\* and of AUTO's heating half, the input to output map, the name).
C36_ForeignPacketKeepsSettings ==
    [][ HeardForAnother => AllSettingsKept ]_vars

\* of the working settings, a packet sent to another node changes only those
\* of AUTO's heating half, by an AUTO_SETTINGS text heard in AUTO
C36_ForeignPacketKeepsAllButAutoHeat ==
    [][ HeardForAnother =>
          /\ UNCHANGED <<sensorSettings, coolSettings, inputToOutput, ModeName>>
          /\ autoSettings' # autoSettings =>
                MyTypeNumber = HVAC_AUTO /\ reportbuf'.cmd.kind = "AUTO_SETTINGS" ]_vars

\* AUTO_SETTINGS 185 was heard in a packet for another node, and AUTO's
\* heating target is 18.5 C
C36_AutoHeatTargetMoved ==
    /\ pc = "hears"
    /\ ~reportbuf.toMe
    /\ reportbuf.cmd = AutoSettings(<< <<1, 8, 5>> >>)
    /\ MyTypeNumber = HVAC_AUTO
    /\ autoSettings.TemperatureTargetHeatDegreesCx10 = 185
    /\ autoSettings.TemperatureActivateHeatDegreesCx10 = 179

\* --------------------------------------------- properties of SpecPoll
\* the poll of this pass saw the signal active
SeenActive(i) == pc' = "poll" /\ LastSeenActive'[i] = millis'
\* the poll of this pass came 25 ms or more after the poll before it
AfterGap == millis' - LastChecked >= 25

\* C34: a signal seen active at a poll is in the input register after the
\* pass; a signal leaves the input register only at a poll that does not see
\* it, 100 ms or more after the last poll that saw it and 100 ms or more
\* after the last poll that came 25 ms or more after the poll before it.
C34_AsymmetricDebounce ==
    [][ pc' = "poll" =>
          /\ RestartedChecking' = IF AfterGap THEN millis' ELSE RestartedChecking
          /\ \A i \in 0..(NUMBER_OF_SIGNALS - 1) :
                /\ SeenActive(i) => HasBit(InputRegister', i)
                /\ HasBit(InputRegister, i) /\ ~HasBit(InputRegister', i) =>
                      /\ ~SeenActive(i)
                      /\ millis' - LastSeenActive[i] >= 100
                      /\ millis' - RestartedChecking' >= 100 ]_vars

\* X2 was last seen at 20 ms and has just left the register at 120 ms, while
\* W, seen until 40 ms, is still in it
C34_Witness ==
    /\ pc = "poll"
    /\ millis = 120
    /\ LastSeenActive[BN_X2] = 20
    /\ LastSeenActive[BN_W] = 40
    /\ RestartedChecking = 0
    /\ previousInputRegister = 40
    /\ InputRegister = 8

\* W was not seen for 120 ms but stays in the register, because a poll came
\* 30 ms after the one before it less than 100 ms ago
C34_WitnessGap ==
    /\ pc = "poll"
    /\ InputRegister = 8
    /\ millis - LastSeenActive[BN_W] >= 120
    /\ millis - RestartedChecking < 100

\* -------------------------------------------- properties of SpecSerial
\* the character read in this step, and whether it ends a line
ByteRead == serialLog'[1].ch
EndsLine == ByteRead \in {10, 13}
HeldAfterRead == IF EndsLine THEN charsInBuf ELSE charsInBuf + 1

\* C35: the buffer never holds 79 characters or more after a character is
\* handled, so the 80 bytes always have room for the null; the text is
\* routed and ready> is written once, and the buffer is emptied, for every
\* CR, for every LF and whenever the buffer reaches 79 characters, and at no
\* other character.
C35_SerialFraming ==
    [][ pc' = "byte" =>
          /\ HeldAfterRead < CMD_BUFLEN
          /\ charsInBuf' < CMD_BUFLEN - 1
          /\ IF EndsLine \/ HeldAfterRead = CMD_BUFLEN - 1
             THEN /\ Len(serialLog') = 3
                  /\ serialLog'[2] = [ev |-> "route", len |-> HeldAfterRead]
                  /\ serialLog'[3] = [ev |-> "ready>"]
                  /\ charsInBuf' = 0
             ELSE /\ Len(serialLog') = 1
                  /\ charsInBuf' = HeldAfterRead ]_vars

\* the 79th character of a line without end has just been read: the 79
\* characters were routed and the buffer is empty
C35_Witness ==
    /\ pc = "byte"
    /\ serialLog = << [ev |-> "read", ch |-> 120], [ev |-> "route", len |-> 79],
                      [ev |-> "ready>"] >>
    /\ charsInBuf = 0

\* a line feed has arrived while the buffer was empty, as after a carriage
\* return: an empty text was routed
C35_WitnessEmptyLine ==
    /\ pc = "byte"
    /\ serialLog = << [ev |-> "read", ch |-> 10], [ev |-> "route", len |-> 0],
                      [ev |-> "ready>"] >>

\* --------------------------------------------- properties of SpecCycle
\* every output mask requested in this step has all the bits of the mask
RequestsInclude(mask) ==
    \A i \in DOMAIN spi' : And8(spi'[i].requested, mask) = mask

\* the fan was on before this step and is on after it, in a sensor-driven mode
FanStaysOn == IsSensorType(MyTypeNumber) /\ fanIsOn /\ fanIsOn'

\* C37: while the fan is on by HVAC FAN=ON in Heat, Cool or Auto, every mask
\* requested has the fan mask bits, whatever the step is (a report, a stage
\* transition made by loop(), a sensor time-out); in PassThrough and
\* MapInputToOutput HVAC FAN= changes neither the fan flag nor an output.
C37_ContinuousFan ==
    [][ /\ FanStaysOn => RequestsInclude(sensorSettings'.MaskFanOnly)
        /\ ( /\ pc' = "command" /\ cmdbuf'.kind = "FAN"
             /\ MyTypeNumber \in {HVAC_PASSTHROUGH, HVAC_MAPINPUTTOOUTPUT} )
           => UNCHANGED <<fanIsOn, LastOutputWrite, OutputRegister>> ]_vars

\* loop() has moved the cooling or the heating to its second or third stage
StageAdvanced ==
    \/ fancoilState' # fancoilState /\ fancoilState' \in {STATE_STAGE2, STATE_STAGE3}
    \/ heatState' # heatState /\ heatState' \in {HEAT_STAGE2, HEAT_STAGE3}

\* what holds of it: the fan bits are in the mask requested by HVAC FAN=ON
\* and in the mask left by a pass that takes a report while the fan is on
\* and makes no stage transition in loop(); HVAC FAN= does nothing in
\* PassThrough and MapInputToOutput
C37_FanOnCommandAndReports ==
    [][ /\ ( /\ pc' = "command" /\ cmdbuf' = HvacFan(TRUE)
             /\ IsSensorType(MyTypeNumber) )
           => fanIsOn' /\ RequestsInclude(sensorSettings'.MaskFanOnly)
        /\ ( FanStaysOn /\ pc' = "hears" /\ ReportTaken /\ ~StageAdvanced )
           => And8(LastOutputWrite', sensorSettings'.MaskFanOnly) =
                  sensorSettings'.MaskFanOnly
        /\ ( /\ pc' = "command" /\ cmdbuf'.kind = "FAN"
             /\ MyTypeNumber \in {HVAC_PASSTHROUGH, HVAC_MAPINPUTTOOUTPUT} )
           => UNCHANGED <<fanIsOn, LastOutputWrite, OutputRegister>> ]_vars

\* the fan is on and loop() has just moved the heat instance to its second
\* stage: W and X2 are requested, the fan on ZX is not
C37_FanDroppedAtStage2 ==
    /\ pc = "elapse"
    /\ MyTypeNumber = HVAC_HEAT
    /\ fanIsOn
    /\ fancoilState = STATE_STAGE2
    /\ sensorSettings.MaskFanOnly = 16
    /\ LastOutputWrite = 40

\* the fan is on and the thermometer has just been timed out: the always-on
\* output is requested alone
C37_FanDroppedAtTimeOut ==
    /\ pc = "elapse"
    /\ MyTypeNumber = HVAC_COOL
    /\ fanIsOn
    /\ fancoilState = STATE_OFF
    /\ previousActual = 0
    /\ millis - lastHeardFromSensor > 900000
    /\ LastOutputWrite = sensorSettings.AlwaysOnMask

\* C38: while Heat, Cool or Auto is active every mask requested has the bits
\* of the always-on mask, with the stages OFF and in every stage.
C38_AlwaysOnInEveryStage ==
    [][ IsSensorType(MyTypeNumber) /\ MyTypeNumber' = MyTypeNumber
        => RequestsInclude(sensorSettings'.AlwaysOnMask) ]_vars

\* what holds of it: while the cooling and the heating stage are OFF the
\* mask last requested has the bits of the always-on mask
C38_AlwaysOnWhileOff ==
    ( /\ IsSensorType(MyTypeNumber)
      /\ fancoilState = STATE_OFF
      /\ heatState = HEAT_OFF )
    => And8(LastOutputWrite, sensorSettings.AlwaysOnMask) = sensorSettings.AlwaysOnMask

\* a report of 19.0 C has just started the first stage of the heat instance:
\* W is requested and Z1, the always-on output, is not
C38_AlwaysOnDroppedInStage1 ==
    /\ pc = "hears"
    /\ MyTypeNumber = HVAC_HEAT
    /\ fancoilState = STATE_STAGE1
    /\ ~fanIsOn
    /\ sensorSettings.AlwaysOnMask = 4
    /\ LastOutputWrite = sensorSettings.OutputStage1
    /\ And8(LastOutputWrite, sensorSettings.AlwaysOnMask) = 0

\* HVAC_SETTINGS was handled in this step by Heat, Cool or Auto: the operator
\* sent it, or the schedule check found a normal entry matching the clock
SettingsHandled ==
    /\ IsSensorType(MyTypeNumber)
    /\ \/ pc' = "command" /\ cmdbuf'.kind = "HVAC_SETTINGS"
       \/ ScheduleChecked /\ \E which \in NormalEntries : EntryMatched(which)

\* the stage masks of the mode, and in AUTO its heat masks
StageMasks ==
    {sensorSettings.OutputStage1, sensorSettings.OutputStage2, sensorSettings.OutputStage3}
    \cup (IF MyTypeNumber = HVAC_AUTO
          THEN {autoSettings.HeatMaskStage1, autoSettings.HeatMaskStage2,
                autoSettings.HeatMaskStage3}
          ELSE {})

\* the mask OffOnExit writes when the command has fewer than five values
OffMask ==
    IF fanIsOn THEN Or8(sensorSettings.AlwaysOnMask, sensorSettings.MaskFanOnly)
    ELSE sensorSettings.AlwaysOnMask

\* C39: every HVAC_SETTINGS handled by Heat, Cool or Auto, from the operator
\* or from the schedule, with a new target or the old one, leaves the stage
\* OFF and writes the always-on outputs (and the fan if it is on), none of
\* which is a stage output; that write is the last of the step unless AUTO
\* was heating.  A stage that starts afterwards starts as stage 1, timed
\* from the report that starts it.
C39_SettingsInterruptCycle ==
    [][ /\ SettingsHandled =>
              /\ fancoilState' = STATE_OFF
              /\ \A mask \in StageMasks' : And8(OffMask, mask) = 0
              /\ \E i \in DOMAIN spi' : spi'[i].requested = OffMask
              /\ heatState = HEAT_OFF => LastOutputWrite' = OffMask
        /\ ( IsSensorType(MyTypeNumber) /\ fancoilState = STATE_OFF
             /\ fancoilState' # STATE_OFF )
           => /\ pc' = "hears"
              /\ fancoilState' = STATE_STAGE1
              /\ timeEnteredStage1' = millis' ]_vars

\* HVAC_SETTINGS 200, which is the target the heat instance has, was sent in
\* its second or third stage: the stage is OFF and W is no longer on
C39_Witness ==
    /\ pc = "command"
    /\ cmdbuf = HvacSettings(<< <<2, 0, 0>> >>)
    /\ MyTypeNumber = HVAC_HEAT
    /\ sensorSettings.TemperatureTargetDegreesCx10 = 200
    /\ millis - timeEnteredStage1 >= 300000
    /\ fancoilState = STATE_OFF
    /\ And8(spi[1].before, sensorSettings.OutputStage1) # 0
    /\ LastOutputWrite = sensorSettings.AlwaysOnMask

\* the schedule check at 6:30 on a Monday set the target of the cool
\* instance to 20.6 C while it was cooling: the stage is OFF and X2 is no
\* longer on
C39_WitnessSchedule ==
    /\ pc = "elapse"
    /\ rtc = [hours |-> 6, minutes |-> 30, weekday |-> 1]
    /\ MyTypeNumber = HVAC_COOL
    /\ sensorSettings.TemperatureTargetDegreesCx10 = 206
    /\ previousActual = 210
    /\ fancoilState = STATE_OFF
    /\ spi # <<>>
    /\ And8(spi[1].before, sensorSettings.OutputStage1) # 0
    /\ LastOutputWrite = sensorSettings.AlwaysOnMask

\* a change of a stage from the value before to the value after in this
\* step is one of: a return to OFF; OFF to stage 1, in a pass that takes a
\* report; stage 1 to stage 2 or 3, or stage 2 to stage 3, in a pass of loop()
StageChangeInOrder(before, after) ==
    \/ after = STATE_OFF
    \/ before = STATE_OFF /\ after = STATE_STAGE1 /\ pc' = "hears" /\ ReportTaken
    \/ before = STATE_STAGE1 /\ after \in {STATE_STAGE2, STATE_STAGE3}
                              /\ pc' \in {"elapse", "hears"}
    \/ before = STATE_STAGE2 /\ after = STATE_STAGE3 /\ pc' \in {"elapse", "hears"}

\* C40: in Heat, Cool and Auto a stage, the cooling or heating stage of the
\* base class or the heating stage of AUTO, changes only by a return to OFF,
\* from OFF to stage 1 on a report that is taken, or upwards from stage 1 or
\* stage 2 in loop(): never to a lower stage that is not OFF, never from OFF
\* to stage 2 or 3.
C40_StageProgression ==
    [][ IsSensorType(MyTypeNumber) =>
          /\ fancoilState' # fancoilState => StageChangeInOrder(fancoilState, fancoilState')
          /\ heatState' # heatState => StageChangeInOrder(heatState, heatState') ]_vars

\* what holds of it: the stage of the base class changes in that order in
\* the three types; the heating stage of AUTO does too, but for loop()
\* putting it back from stage 3 to stage 2 when the cooling has restarted
\* the stage timer since the heating began
C40_StageProgressionButAutoHeat ==
    [][ IsSensorType(MyTypeNumber) =>
          /\ fancoilState' # fancoilState => StageChangeInOrder(fancoilState, fancoilState')
          /\ heatState' # heatState =>
                \/ StageChangeInOrder(heatState, heatState')
                \/ /\ heatState = HEAT_STAGE3 /\ heatState' = HEAT_STAGE2
                   /\ MyTypeNumber = HVAC_AUTO
                   /\ millis' - timeEnteredStage1 < sensorSettings.SecondsToThirdStage * 1000 ]_vars

\* AUTO was heating in its third stage when a report of 21.0 C started the
\* cooling; 300 s after that report loop() has put the heating stage back to
\* its second stage
C40_AutoHeatStageWentBack ==
    /\ pc = "elapse"
    /\ MyTypeNumber = HVAC_AUTO
    /\ heatState = HEAT_STAGE2
    /\ fancoilState = STATE_STAGE1
    /\ timeEnteredStage1 = 600000
    /\ millis = 900000
    /\ LastOutputWrite = autoSettings.HeatMaskStage2

\* the heat instance went from its first stage to its second and then to
\* its third, 300 s and 600 s after the report that started it
C40_ThroughTheStages ==
    /\ pc = "elapse"
    /\ MyTypeNumber = HVAC_HEAT
    /\ fancoilState = STATE_STAGE3
    /\ timeEnteredStage1 = 0
    /\ millis = 600000
    /\ LastOutputWrite = sensorSettings.OutputStage3

====
